---- MODULE Spec2Model ----
(***************************************************************************)
(* Cache memory simulator: the engine (src/cache_engine.py), the serving   *)
(* adapter (src/app.py) and the console program (src/cache_simulator.py).  *)
(*                                                                         *)
(* A Python object is a record; an optional value (None or a value) is a   *)
(* sequence of length 0 or 1, so that None and a number compare without a  *)
(* type clash.  A method that mutates self and the response dictionary is  *)
(* an operator from (self, ..., response) to the frame                     *)
(* [self, response, raised]; raised names the exception that left the      *)
(* method, if any.                                                         *)
(***************************************************************************)
EXTENDS Integers, Sequences, FiniteSets, TLC

VARIABLES active_cache, response, touched, calls, console, threads

vars == <<active_cache, response, touched, calls, console, threads>>

---------------------------------------------------------------------------
(* Bounds of the model *)

\* number of accesses explored on one instance by direct calls of the engine
MaxAccesses == 4

\* number of accesses explored on one instance through the adapter
MaxRequests == 2

\* length of the address list entered in the console's interactive mode
MaxEntered == 3

\* the (cache_size, block_size) pairs a create request may carry: one, two
\* and three lines, no line, and a block size of zero
ConfigSizes == {<<4, 4>>, <<8, 4>>, <<15, 4>>, <<0, 4>>, <<8, 0>>}

CacheTypes == {"direct-mapped", "fully-associative"}

WritePolicies == {"write-through", "write-back"}

\* with 4-byte blocks: three blocks, and two addresses of one block
Addresses == {0, 4, 8, 9}

Operations == {"read", "write"}

\* what may be typed at the console's size prompts, and its address list
EnteredSizes == {0, 4, 8, 12}

EnteredAddresses == {0, 4, 8, 16}

---------------------------------------------------------------------------
(* Python values *)

None == <<>>

Some(x) == <<x>>

IsNone(o) == o = <<>>

\* mutant: the address is stored whatever the data
OrElse_AlwaysAddress(data, a) == a

\* `a if data is None else data`
OrElse(data, a) == IF IsNone(data) THEN a ELSE data[1]

RECURSIVE Pow2(_)
\* 1 << n
Pow2(n) == IF n <= 0 THEN 1 ELSE 2 * Pow2(n - 1)

RECURSIVE BitAnd(_, _)
\* x & y on non-negative integers
BitAnd(x, y) ==
    IF x = 0 \/ y = 0 THEN 0
    ELSE (x % 2) * (y % 2) + 2 * BitAnd(x \div 2, y \div 2)

\* x >> n on non-negative integers
ShiftRight(x, n) == x \div Pow2(n)

RECURSIVE FloorLog2(_)
\* int(math.log2(n)) for n > 0
FloorLog2(n) == IF n <= 1 THEN 0 ELSE 1 + FloorLog2(n \div 2)

\* math.log2 raises ValueError on a non-positive argument
Log2Raises(n) == n <= 0

\* range(n) as the list 0, 1, ..., n-1 (empty when n <= 0)
Range(n) == [i \in 1..n |-> i - 1]

\* the positions of a list or the keys of a dictionary built over range(n)
Keys(n) == 0..(n - 1)

---------------------------------------------------------------------------
(* CacheBlock *)

\* mutant: a new block is born valid
CacheBlock_Valid == [valid |-> 1, tag |-> None, data |-> None, dirty |-> 0]

CacheBlock == [valid |-> 0, tag |-> None, data |-> None, dirty |-> 0]

\* mutant: the dirty bit is not reported
to_dict_NoDirty(block) ==
    [valid |-> block.valid, tag |-> block.tag,
     data |-> block.data, dirty |-> 0]

to_dict(block) ==
    [valid |-> block.valid, tag |-> block.tag,
     data |-> block.data, dirty |-> block.dirty]

---------------------------------------------------------------------------
(* CacheSimulator: the base class *)

Frame(self, resp) == [self |-> self, response |-> resp, raised |-> None]

Raise(self, resp, exc) == [self |-> self, response |-> resp, raised |-> Some(exc)]

AddStep(resp, name) == [resp EXCEPT !.steps = Append(@, name)]

\* CacheSimulator.__init__: the fields every instance has.  The division
\* raises on block_size = 0 and the logarithm on block_size < 0.
BaseInitRaises(cache_size, block_size) ==
    IF block_size = 0 THEN Some("ZeroDivisionError")
    ELSE IF Log2Raises(block_size) THEN Some("ValueError")
    ELSE None

BaseInit(cache_size, block_size, write_policy) ==
    [cache_size |-> cache_size,
     block_size |-> block_size,
     num_blocks |-> cache_size \div block_size,
     write_policy |-> write_policy,
     offset_bits |-> FloorLog2(block_size),
     total_accesses |-> 0,
     hits |-> 0,
     misses |-> 0,
     memory_reads |-> 0,
     memory_writes |-> 0]

\* round(x, 2) of the quotient n / d, in hundredths: Python rounds to the
\* nearest multiple of 0.01.  An exact half arises only when d is a multiple
\* of 32, which no run explored here reaches; Python then rounds the float
\* it computed, to the even neighbour when that float is exact.
RoundHundredths(n, d) ==
    LET q == (100 * n) \div d
        r == (100 * n) % d
    IN IF 2 * r < d THEN q
       ELSE IF 2 * r > d THEN q + 1
       ELSE IF q % 2 = 0 THEN q ELSE q + 1

\* (count / self.total_accesses * 100) if self.total_accesses > 0 else 0,
\* rounded to two decimals; the float is held in hundredths, 62.5 as 6250
Percentage(count, total_accesses) ==
    IF total_accesses > 0 THEN RoundHundredths(count * 100, total_accesses)
    ELSE 0

\* mutant: the ratios are not multiplied by 100
get_statistics_Fraction(self) ==
    [total_accesses |-> self.total_accesses,
     hits |-> self.hits,
     misses |-> self.misses,
     hit_ratio |-> IF self.total_accesses > 0
                   THEN RoundHundredths(self.hits, self.total_accesses)
                   ELSE 0,
     miss_ratio |-> IF self.total_accesses > 0
                    THEN RoundHundredths(self.misses, self.total_accesses)
                    ELSE 0,
     memory_reads |-> self.memory_reads,
     memory_writes |-> self.memory_writes,
     total_memory_traffic |-> self.memory_reads + self.memory_writes]

get_statistics(self) ==
    [total_accesses |-> self.total_accesses,
     hits |-> self.hits,
     misses |-> self.misses,
     hit_ratio |-> Percentage(self.hits, self.total_accesses),
     miss_ratio |-> Percentage(self.misses, self.total_accesses),
     memory_reads |-> self.memory_reads,
     memory_writes |-> self.memory_writes,
     total_memory_traffic |-> self.memory_reads + self.memory_writes]

\* The blocks in the order the container lists them: list order for the
\* direct-mapped list, key order for the associative OrderedDict.
Blocks(self) == [k \in 1..Len(self.order) |-> to_dict(self.cache[self.order[k]])]

---------------------------------------------------------------------------
(* DirectMappedCache *)

\* DirectMappedCache.__init__ raises where the base class does, and on the
\* logarithm of a line count that is not positive.
DM_InitRaises(cache_size, block_size) ==
    IF ~IsNone(BaseInitRaises(cache_size, block_size))
    THEN BaseInitRaises(cache_size, block_size)
    ELSE IF Log2Raises(cache_size \div block_size) THEN Some("ValueError")
    ELSE None

DirectMappedCache(cache_size, block_size, write_policy) ==
    LET base == BaseInit(cache_size, block_size, write_policy)
        index_bits == FloorLog2(base.num_blocks)
    IN [cache_type |-> "direct-mapped",
        cache_size |-> base.cache_size,
        block_size |-> base.block_size,
        num_blocks |-> base.num_blocks,
        write_policy |-> base.write_policy,
        offset_bits |-> base.offset_bits,
        index_bits |-> Some(index_bits),
        tag_bits |-> 32 - index_bits - base.offset_bits,
        cache |-> [i \in Keys(base.num_blocks) |-> CacheBlock],
        order |-> Range(base.num_blocks),
        total_accesses |-> 0,
        hits |-> 0,
        misses |-> 0,
        memory_reads |-> 0,
        memory_writes |-> 0]

\* mutant: the mask without its "- 1"
DM_index_mask_OffByOne(self) == Pow2(self.index_bits[1])

\* the index mask of decompose_address
DM_index_mask(self) == Pow2(self.index_bits[1]) - 1

\* mutant: the tag keeps the index bits
DM_decompose_address_TagKeepsIndex(self, address) ==
    LET offset_mask == Pow2(self.offset_bits) - 1
        offset == BitAnd(address, offset_mask)
        index == BitAnd(ShiftRight(address, self.offset_bits), DM_index_mask(self))
        tag == ShiftRight(address, self.offset_bits)
    IN [tag |-> tag, index |-> index, offset |-> offset]

DM_decompose_address(self, address) ==
    LET offset_mask == Pow2(self.offset_bits) - 1
        offset == BitAnd(address, offset_mask)
        index == BitAnd(ShiftRight(address, self.offset_bits), DM_index_mask(self))
        tag == ShiftRight(address, self.offset_bits + self.index_bits[1])
    IN [tag |-> tag, index |-> index, offset |-> offset]

\* mutant: a write hit leaves the line clean under either policy
WriteHitDirty_Clean(write_policy) == 0

\* the value a write hit leaves in the line's dirty bit
WriteHitDirty(write_policy) == IF write_policy = "write-through" THEN 0 ELSE 1

\* mutant: the write-back branch stores the value and leaves the dirty bit
DM_handle_write_hit_NoDirty(self, index, address, data, resp) ==
    IF self.write_policy = "write-through"
    THEN Frame([self EXCEPT !.cache[index].data = Some(OrElse(data, address)),
                            !.memory_writes = @ + 1,
                            !.cache[index].dirty = WriteHitDirty(self.write_policy)],
               AddStep(resp, "Write"))
    ELSE Frame([self EXCEPT !.cache[index].data = Some(OrElse(data, address))],
               AddStep(resp, "Write"))

DM_handle_write_hit(self, index, address, data, resp) ==
    IF self.write_policy = "write-through"
    THEN Frame([self EXCEPT !.cache[index].data = Some(OrElse(data, address)),
                            !.memory_writes = @ + 1,
                            !.cache[index].dirty = WriteHitDirty(self.write_policy)],
               AddStep(resp, "Write"))
    ELSE Frame([self EXCEPT !.cache[index].data = Some(OrElse(data, address)),
                            !.cache[index].dirty = WriteHitDirty(self.write_policy)],
               AddStep(resp, "Write"))

\* mutant: a write miss marks the line dirty whatever the policy
FetchDirty_IgnoresPolicy(write_policy, operation) ==
    IF operation = "write" THEN 1 ELSE 0

\* the dirty bit _fetch_from_memory leaves in the installed line
\* mutant: a block fetched under write-back is dirty whatever the operation
FetchDirty_AnyOperation(write_policy, operation) ==
    IF write_policy = "write-through" THEN 0 ELSE 1

FetchDirty(write_policy, operation) ==
    IF operation = "write"
    THEN IF write_policy = "write-through" THEN 0 ELSE 1
    ELSE 0

\* mutant: a write miss is not propagated to memory
FetchMemoryWrites_None(write_policy, operation) == 0

\* what _fetch_from_memory adds to memory_writes
FetchMemoryWrites(write_policy, operation) ==
    IF operation = "write" /\ write_policy = "write-through" THEN 1 ELSE 0

\* mutant: the tag is stored only into a line that was empty
DM_fetch_from_memory_KeepsTag(self, index, tag, address, operation, data, resp) ==
    Frame([self EXCEPT !.memory_reads = @ + 1,
                       !.cache[index].valid = 1,
                       !.cache[index].tag = IF IsNone(@) THEN Some(tag) ELSE @,
                       !.cache[index].data = Some(OrElse(data, address)),
                       !.cache[index].dirty = FetchDirty(self.write_policy, operation),
                       !.memory_writes =
                           @ + FetchMemoryWrites(self.write_policy, operation)],
          AddStep(resp, "Memory Fetch"))

DM_fetch_from_memory(self, index, tag, address, operation, data, resp) ==
    Frame([self EXCEPT !.memory_reads = @ + 1,
                       !.cache[index].valid = 1,
                       !.cache[index].tag = Some(tag),
                       !.cache[index].data = Some(OrElse(data, address)),
                       !.cache[index].dirty = FetchDirty(self.write_policy, operation),
                       !.memory_writes =
                           @ + FetchMemoryWrites(self.write_policy, operation)],
          AddStep(resp, "Memory Fetch"))

\* mutant: every eviction under write-back writes back
EvictionWritesBack_IgnoresDirty(write_policy, line) ==
    write_policy = "write-back"

\* `self.write_policy == 'write-back' and line.dirty == 1` on an eviction
EvictionWritesBack(write_policy, line) ==
    write_policy = "write-back" /\ line.dirty = 1

\* mutant: the last step is not listed
FinishAccess_NoStep(f) ==
    Frame(f.self,
          [f.response EXCEPT
               !.cache_state = Blocks(f.self),
               !.statistics = Some(get_statistics(f.self))])

\* the end of access: the last step, the line listing and the statistics
FinishAccess(f) ==
    Frame(f.self,
          [AddStep(f.response, "Update Cache") EXCEPT
               !.cache_state = Blocks(f.self),
               !.statistics = Some(get_statistics(f.self))])

\* self.total_accesses += 1, the first statement of access
CountAccess(self) == [self EXCEPT !.total_accesses = @ + 1]

\* mutant: a hit is counted downwards
CountHit_Decrement(self) == [self EXCEPT !.hits = @ - 1]

\* self.hits += 1 on the hit branch
CountHit(self) == [self EXCEPT !.hits = @ + 1]

\* mutant: a miss is not counted
CountMiss_Forgotten(self) == self

\* self.misses += 1 on the miss branch
CountMiss(self) == [self EXCEPT !.misses = @ + 1]

\* mutant: any valid line counts as a match
DM_tag_matches_IgnoresTag(cache_line, tag) == cache_line.valid = 1

\* `cache_line.valid == 1 and cache_line.tag == tag`
DM_tag_matches(cache_line, tag) ==
    cache_line.valid = 1 /\ cache_line.tag = Some(tag)

DM_access(self, address, operation, data) ==
    LET self1 == CountAccess(self)
        d == DM_decompose_address(self1, address)
        r0 == [access_number |-> self1.total_accesses,
               address |-> address,
               operation |-> operation,
               decomposition |-> d,
               steps |-> <<>>,
               hit |-> FALSE,
               eviction |-> FALSE,
               dirty_writeback |-> FALSE,
               affected_line |-> Some(d.index),
               cache_state |-> <<>>,
               statistics |-> None]
    IN IF d.index \notin DOMAIN self1.cache
       THEN Raise(self1, r0, "IndexError")
       ELSE
       LET cache_line == self1.cache[d.index]
           r1 == AddStep(r0, "Fetch")
       IN IF DM_tag_matches(cache_line, d.tag)
          THEN LET self2 == CountHit(self1)
                   r2 == AddStep(AddStep([r1 EXCEPT !.hit = TRUE],
                                         "Compare Tag"), "Hit/Miss")
               IN FinishAccess(
                      IF operation = "write"
                      THEN DM_handle_write_hit(self2, d.index, address, data, r2)
                      ELSE Frame(self2, r2))
          ELSE LET self2 == CountMiss(self1)
                   r2 == [r1 EXCEPT !.hit = FALSE]
                   wb == cache_line.valid = 1
                         /\ EvictionWritesBack(self2.write_policy, cache_line)
                   self3 == IF wb THEN [self2 EXCEPT !.memory_writes = @ + 1]
                            ELSE self2
                   r3 == IF cache_line.valid = 1
                         THEN [AddStep(r2, "Compare Tag") EXCEPT
                                   !.eviction = TRUE,
                                   !.dirty_writeback = wb]
                         ELSE AddStep(r2, "Compare Tag")
                   r4 == AddStep(r3, "Hit/Miss")
               IN FinishAccess(
                      DM_fetch_from_memory(self3, d.index, d.tag, address,
                                           operation, data, r4))

DM_get_cache_state(self) ==
    [type |-> self.cache_type,
     size |-> self.cache_size,
     block_size |-> self.block_size,
     num_blocks |-> self.num_blocks,
     write_policy |-> self.write_policy,
     bits |-> [tag |-> self.tag_bits, index |-> self.index_bits,
               offset |-> self.offset_bits],
     lines |-> Blocks(self),
     statistics |-> get_statistics(self)]

---------------------------------------------------------------------------
(* FullyAssociativeCache: self.cache is an OrderedDict from line number to  *)
(* block; order lists its keys from the first (oldest end) to the last.    *)

FA_InitRaises(cache_size, block_size) == BaseInitRaises(cache_size, block_size)

FullyAssociativeCache(cache_size, block_size, write_policy) ==
    LET base == BaseInit(cache_size, block_size, write_policy)
    IN [cache_type |-> "fully-associative",
        cache_size |-> base.cache_size,
        block_size |-> base.block_size,
        num_blocks |-> base.num_blocks,
        write_policy |-> base.write_policy,
        offset_bits |-> base.offset_bits,
        index_bits |-> None,
        tag_bits |-> 32 - base.offset_bits,
        cache |-> [i \in Keys(base.num_blocks) |-> CacheBlock],
        order |-> Range(base.num_blocks),
        total_accesses |-> 0,
        hits |-> 0,
        misses |-> 0,
        memory_reads |-> 0,
        memory_writes |-> 0]

\* mutant: the tag keeps the offset bits
FA_decompose_address_TagKeepsOffset(self, address) ==
    LET offset_mask == Pow2(self.offset_bits) - 1
        offset == BitAnd(address, offset_mask)
    IN [tag |-> address, offset |-> offset]

FA_decompose_address(self, address) ==
    LET offset_mask == Pow2(self.offset_bits) - 1
        offset == BitAnd(address, offset_mask)
        tag == ShiftRight(address, self.offset_bits)
    IN [tag |-> tag, offset |-> offset]

\* the first of a set of positions of the key order, or 0 when there is none
FirstPosition(positions) ==
    IF positions = {} THEN 0
    ELSE CHOOSE k \in positions : \A j \in positions : k <= j

\* mutant: the search finds no line
FA_find_block_Never(self, tag) == None

FA_find_block(self, tag) ==
    LET k == FirstPosition({j \in 1..Len(self.order) :
                               /\ self.cache[self.order[j]].valid = 1
                               /\ self.cache[self.order[j]].tag = Some(tag)})
    IN IF k = 0 THEN None ELSE Some(self.order[k])

\* mutant: the search returns the last empty line of the order
FA_find_empty_line_Last(self) ==
    LET S == {j \in 1..Len(self.order) : self.cache[self.order[j]].valid = 0}
    IN IF S = {} THEN None
       ELSE Some(self.order[CHOOSE k \in S : \A j \in S : j <= k])

\* mutant: the test of the valid bit is left out
FA_find_empty_line_AnyLine(self) ==
    IF Len(self.order) = 0 THEN None ELSE Some(self.order[1])

\* mutant: no line is ever found empty
FA_find_empty_line_Never(self) == None

FA_find_empty_line(self) ==
    LET k == FirstPosition({j \in 1..Len(self.order) :
                               self.cache[self.order[j]].valid = 0})
    IN IF k = 0 THEN None ELSE Some(self.order[k])

\* next(iter(self.cache)): the first key; StopIteration on an empty dictionary
FA_evict_lru_raises(self) == Len(self.order) = 0

FA_evict_lru(self) == self.order[1]

\* mutant: move_to_end(line_num, last=False)
FA_update_lru_ToFront(self, line_num) ==
    [self EXCEPT !.order =
        <<line_num>> \o SelectSeq(@, LAMBDA k : k # line_num)]

\* mutant: the key order is never changed
FA_update_lru_NoMove(self, line_num) == self

\* OrderedDict.move_to_end(line_num)
FA_update_lru(self, line_num) ==
    [self EXCEPT !.order =
        Append(SelectSeq(@, LAMBDA k : k # line_num), line_num)]

\* mutant: the write-back branch sets the dirty bit and forgets the value
FA_handle_write_hit_KeepsData(self, line_num, address, data, resp) ==
    IF self.write_policy = "write-through"
    THEN Frame([self EXCEPT !.cache[line_num].data = Some(OrElse(data, address)),
                            !.memory_writes = @ + 1,
                            !.cache[line_num].dirty = WriteHitDirty(self.write_policy)],
               AddStep(resp, "Write"))
    ELSE Frame([self EXCEPT !.cache[line_num].dirty = WriteHitDirty(self.write_policy)],
               AddStep(resp, "Write"))

FA_handle_write_hit(self, line_num, address, data, resp) ==
    IF self.write_policy = "write-through"
    THEN Frame([self EXCEPT !.cache[line_num].data = Some(OrElse(data, address)),
                            !.memory_writes = @ + 1,
                            !.cache[line_num].dirty = WriteHitDirty(self.write_policy)],
               AddStep(resp, "Write"))
    ELSE Frame([self EXCEPT !.cache[line_num].data = Some(OrElse(data, address)),
                            !.cache[line_num].dirty = WriteHitDirty(self.write_policy)],
               AddStep(resp, "Write"))

\* mutant: the valid bit is not set
FA_fetch_from_memory_NoValid(self, line_num, tag, address, operation, data, resp) ==
    Frame([self EXCEPT !.memory_reads = @ + 1,
                       !.cache[line_num].tag = Some(tag),
                       !.cache[line_num].data = Some(OrElse(data, address)),
                       !.cache[line_num].dirty = FetchDirty(self.write_policy, operation),
                       !.memory_writes =
                           @ + FetchMemoryWrites(self.write_policy, operation)],
          AddStep(resp, "Memory Fetch"))

FA_fetch_from_memory(self, line_num, tag, address, operation, data, resp) ==
    Frame([self EXCEPT !.memory_reads = @ + 1,
                       !.cache[line_num].valid = 1,
                       !.cache[line_num].tag = Some(tag),
                       !.cache[line_num].data = Some(OrElse(data, address)),
                       !.cache[line_num].dirty = FetchDirty(self.write_policy, operation),
                       !.memory_writes =
                           @ + FetchMemoryWrites(self.write_policy, operation)],
          AddStep(resp, "Memory Fetch"))

FA_access(self, address, operation, data) ==
    LET self1 == CountAccess(self)
        d == FA_decompose_address(self1, address)
        r0 == [access_number |-> self1.total_accesses,
               address |-> address,
               operation |-> operation,
               decomposition |-> d,
               steps |-> <<"Search">>,
               hit |-> FALSE,
               eviction |-> FALSE,
               dirty_writeback |-> FALSE,
               affected_line |-> None,
               cache_state |-> <<>>,
               statistics |-> None]
        hit_line == FA_find_block(self1, d.tag)
    IN IF ~IsNone(hit_line)
       THEN LET self2 == CountHit(self1)
                r1 == AddStep(AddStep([r0 EXCEPT !.hit = TRUE,
                                                 !.affected_line = hit_line],
                                      "Compare Tag"), "Hit/Miss")
                self3 == FA_update_lru(self2, hit_line[1])
            IN FinishAccess(
                   IF operation = "write"
                   THEN FA_handle_write_hit(self3, hit_line[1], address, data, r1)
                   ELSE Frame(self3, r1))
       ELSE LET self2 == CountMiss(self1)
                r1 == AddStep(AddStep([r0 EXCEPT !.hit = FALSE],
                                      "Compare Tag"), "Hit/Miss")
                empty_line == FA_find_empty_line(self2)
            IN IF IsNone(empty_line) /\ FA_evict_lru_raises(self2)
               THEN Raise(self2, r1, "StopIteration")
               ELSE
               LET target_line == IF ~IsNone(empty_line) THEN empty_line[1]
                                  ELSE FA_evict_lru(self2)
                   evicted_block == self2.cache[target_line]
                   wb == IsNone(empty_line)
                         /\ EvictionWritesBack(self2.write_policy, evicted_block)
                   self3 == IF wb THEN [self2 EXCEPT !.memory_writes = @ + 1]
                            ELSE self2
                   r2 == [r1 EXCEPT !.eviction = IsNone(empty_line),
                                    !.dirty_writeback = wb,
                                    !.affected_line = Some(target_line)]
                   f == FA_fetch_from_memory(self3, target_line, d.tag, address,
                                             operation, data, r2)
               IN FinishAccess(Frame(FA_update_lru(f.self, target_line),
                                     f.response))

FA_get_cache_state(self) ==
    [type |-> self.cache_type,
     size |-> self.cache_size,
     block_size |-> self.block_size,
     num_blocks |-> self.num_blocks,
     write_policy |-> self.write_policy,
     bits |-> [tag |-> self.tag_bits, offset |-> self.offset_bits],
     lines |-> Blocks(self),
     statistics |-> get_statistics(self)]

\* method dispatch on the instance's class
access(self, address, operation, data) ==
    IF self.cache_type = "direct-mapped"
    THEN DM_access(self, address, operation, data)
    ELSE FA_access(self, address, operation, data)

get_cache_state(self) ==
    IF self.cache_type = "direct-mapped"
    THEN DM_get_cache_state(self)
    ELSE FA_get_cache_state(self)

---------------------------------------------------------------------------
(* The serving adapter (src/app.py) and its global active_cache.  response *)
(* is what the last handler or call returned.  Two history variables       *)
(* record the calls of access made on the current instance since it was    *)
(* built: touched lists the distinct addresses accessed, the most recently *)
(* accessed last, and calls counts the read and the write calls.           *)
(* threads is the position of each request thread inside a handler; the    *)
(* handlers below run from start to end without another thread in between, *)
(* which is what a single caller sees.                                     *)

NoCalls == [read |-> 0, write |-> 0]

NumCalls == calls.read + calls.write

\* the history variables after one more call of access
Touch(address) == Append(SelectSeq(touched, LAMBDA a : a # address), address)

Called(operation) == [calls EXCEPT ![operation] = @ + 1]

NoConsole == [mode |-> "off"]

\* the threads of the serving process that handle requests
Threads == {1, 2}

\* a thread between two requests
Idle == [pc |-> "idle"]

NoThreads == [t \in Threads |-> Idle]

Init ==
    /\ active_cache = None
    /\ response = [handler |-> "none"]
    /\ touched = <<>>
    /\ calls = NoCalls
    /\ console = NoConsole
    /\ threads = NoThreads

\* the constructor create_cache and reset_cache select by cache_type
Construct(cache_type, cache_size, block_size, write_policy) ==
    IF cache_type = "direct-mapped"
    THEN DirectMappedCache(cache_size, block_size, write_policy)
    ELSE FullyAssociativeCache(cache_size, block_size, write_policy)

ConstructRaises(cache_type, cache_size, block_size) ==
    IF cache_type = "direct-mapped"
    THEN DM_InitRaises(cache_size, block_size)
    ELSE FA_InitRaises(cache_size, block_size)

\* mutant: the global is cleared before the constructor runs, so a failed
\* create leaves no cache
create_cache_ClearsFirst(cache_size, block_size, cache_type, write_policy) ==
    /\ console = NoConsole
    /\ LET exc == ConstructRaises(cache_type, cache_size, block_size)
       IN IF IsNone(exc)
          THEN LET new == Construct(cache_type, cache_size, block_size, write_policy)
               IN /\ active_cache' = Some(new)
                  /\ touched' = <<>>
                  /\ calls' = NoCalls
                  /\ response' = [handler |-> "create_cache", success |-> TRUE,
                                  status |-> 200,
                                  cache_state |-> get_cache_state(new)]
          ELSE /\ response' = [handler |-> "create_cache", success |-> FALSE,
                               status |-> 400, error |-> exc[1],
                               request |-> <<cache_size, block_size, cache_type,
                                             write_policy>>]
               /\ active_cache' = None
               /\ UNCHANGED <<touched, calls>>
    /\ UNCHANGED <<console, threads>>

\* POST /api/create_cache
create_cache(cache_size, block_size, cache_type, write_policy) ==
    /\ console = NoConsole
    /\ LET exc == ConstructRaises(cache_type, cache_size, block_size)
       IN IF IsNone(exc)
          THEN LET new == Construct(cache_type, cache_size, block_size, write_policy)
               IN /\ active_cache' = Some(new)
                  /\ touched' = <<>>
                  /\ calls' = NoCalls
                  /\ response' = [handler |-> "create_cache", success |-> TRUE,
                                  status |-> 200,
                                  cache_state |-> get_cache_state(new)]
          ELSE /\ response' = [handler |-> "create_cache", success |-> FALSE,
                               status |-> 400, error |-> exc[1],
                               request |-> <<cache_size, block_size, cache_type,
                                             write_policy>>]
               /\ UNCHANGED <<active_cache, touched, calls>>
    /\ UNCHANGED <<console, threads>>

\* POST /api/access: the adapter passes no data
cache_access(address, operation) ==
    /\ console = NoConsole
    /\ IF IsNone(active_cache)
       THEN /\ response' = [handler |-> "cache_access", success |-> FALSE,
                            status |-> 400, error |-> "No active cache. Create a cache first."]
            /\ UNCHANGED <<active_cache, touched, calls>>
       ELSE /\ NumCalls < MaxRequests
            /\ LET f == access(active_cache[1], address, operation, None)
               IN /\ active_cache' = Some(f.self)
                  /\ touched' = Touch(address)
                  /\ calls' = Called(operation)
                  /\ response' =
                         IF IsNone(f.raised)
                         THEN [handler |-> "cache_access", success |-> TRUE,
                               status |-> 200, result |-> f.response]
                         ELSE [handler |-> "cache_access", success |-> FALSE,
                               status |-> 400, error |-> f.raised[1]]
    /\ UNCHANGED <<console, threads>>

\* a direct call of the engine's access on the instance; an exception
\* reaches the caller.  The data argument is kept beside what the call
\* returned.
engine_access(address, operation, data) ==
    /\ console = NoConsole
    /\ ~IsNone(active_cache)
    /\ NumCalls < MaxAccesses
    /\ LET f == access(active_cache[1], address, operation, data)
       IN /\ active_cache' = Some(f.self)
          /\ touched' = Touch(address)
                  /\ calls' = Called(operation)
          /\ response' =
                 IF IsNone(f.raised)
                 THEN [handler |-> "access", success |-> TRUE,
                       status |-> 200, result |-> f.response, data |-> data]
                 ELSE [handler |-> "access", success |-> FALSE,
                       status |-> 500, error |-> f.raised[1], data |-> data]
    /\ UNCHANGED <<console, threads>>

\* mutant: the check for a missing cache is left out and the request is
\* answered as a success
get_state_NoCheck ==
    /\ console = NoConsole
    /\ response' =
           IF IsNone(active_cache)
           THEN [handler |-> "get_state", success |-> TRUE, status |-> 200,
                 cache_state |-> None]
           ELSE [handler |-> "get_state", success |-> TRUE, status |-> 200,
                 cache_state |-> get_cache_state(active_cache[1])]
    /\ UNCHANGED <<active_cache, touched, calls, console, threads>>

\* GET /api/get_state
get_state ==
    /\ console = NoConsole
    /\ response' =
           IF IsNone(active_cache)
           THEN [handler |-> "get_state", success |-> FALSE, status |-> 400,
                 error |-> "No active cache"]
           ELSE [handler |-> "get_state", success |-> TRUE, status |-> 200,
                 cache_state |-> get_cache_state(active_cache[1])]
    /\ UNCHANGED <<active_cache, touched, calls, console, threads>>

\* mutant: the cache is rebuilt without passing write_policy on, so with the
\* constructor's default
reset_cache_DefaultPolicy ==
    /\ console = NoConsole
    /\ IF IsNone(active_cache)
       THEN /\ response' = [handler |-> "reset_cache", success |-> FALSE,
                            status |-> 400, error |-> "No active cache"]
            /\ UNCHANGED <<active_cache, touched, calls>>
       ELSE LET old == active_cache[1]
                new == Construct(old.cache_type, old.cache_size,
                                 old.block_size, "write-through")
            IN /\ active_cache' = Some(new)
               /\ touched' = <<>>
               /\ calls' = NoCalls
               /\ response' = [handler |-> "reset_cache", success |-> TRUE,
                               status |-> 200,
                               cache_state |-> get_cache_state(new)]
    /\ UNCHANGED <<console, threads>>

\* POST /api/reset: the constructor runs outside any try block
reset_cache ==
    /\ console = NoConsole
    /\ IF IsNone(active_cache)
       THEN /\ response' = [handler |-> "reset_cache", success |-> FALSE,
                            status |-> 400, error |-> "No active cache"]
            /\ UNCHANGED <<active_cache, touched, calls>>
       ELSE LET old == active_cache[1]
                exc == ConstructRaises(old.cache_type, old.cache_size,
                                       old.block_size)
                new == Construct(old.cache_type, old.cache_size,
                                 old.block_size, old.write_policy)
            IN IF IsNone(exc)
               THEN /\ active_cache' = Some(new)
                    /\ touched' = <<>>
                    /\ calls' = NoCalls
                    /\ response' = [handler |-> "reset_cache", success |-> TRUE,
                                    status |-> 200,
                                    cache_state |-> get_cache_state(new)]
               ELSE /\ response' = [handler |-> "reset_cache", success |-> FALSE,
                                    status |-> 500, error |-> exc[1]]
                    /\ UNCHANGED <<active_cache, touched, calls>>
    /\ UNCHANGED <<console, threads>>

AdapterNext ==
    \/ \E cfg \in ConfigSizes, t \in CacheTypes, w \in WritePolicies :
           create_cache(cfg[1], cfg[2], t, w)
    \/ \E a \in Addresses, op \in Operations : cache_access(a, op)
    \/ get_state
    \/ reset_cache

\* the serving process: no cache until the first successful create request
SpecAdapter == Init /\ [][AdapterNext]_vars

\* the write_policy values a create request may carry: the two the engine
\* names, and a string it does not name (create_cache passes on whatever it
\* is given)
RequestPolicies == WritePolicies \union {"write-around"}

\* the adapter's requests, a create request carrying any write_policy
PoliciesNext ==
    \/ \E cfg \in ConfigSizes, t \in CacheTypes, w \in RequestPolicies :
           create_cache(cfg[1], cfg[2], t, w)
    \/ \E a \in Addresses, op \in Operations : cache_access(a, op)
    \/ get_state
    \/ reset_cache

SpecPolicies == Init /\ [][PoliciesNext]_vars

---------------------------------------------------------------------------
(* The engine called directly: an instance as its constructor leaves it,   *)
(* then calls of access with or without data.                              *)

EngineInit ==
    /\ \E cfg \in ConfigSizes, t \in CacheTypes, w \in WritePolicies :
           /\ IsNone(ConstructRaises(t, cfg[1], cfg[2]))
           /\ active_cache = Some(Construct(t, cfg[1], cfg[2], w))
    /\ response = [handler |-> "none"]
    /\ touched = <<>>
    /\ calls = NoCalls
    /\ console = NoConsole
    /\ threads = NoThreads

\* access(address, operation) as the adapter and the console call it
Next ==
    \E a \in Addresses, op \in Operations : engine_access(a, op, None)

Spec == EngineInit /\ [][Next]_vars

\* what a direct caller may pass as data: nothing, or a value that is no
\* address of the model
DataValues == {None, Some(77)}

\* access(address, operation, data) with and without a data value
DataNext ==
    \E a \in Addresses, op \in Operations, data \in DataValues :
        engine_access(a, op, data)

SpecData == EngineInit /\ [][DataNext]_vars

\* the addresses handed to decompose_address: every offset of the first
\* blocks, and one address beyond 2^30
DecomposeAddresses == (0..40) \union {Pow2(30) + 5}

\* a direct call of decompose_address(address) on the instance: the variant's
\* own method answers, and the instance is left as it was
decompose_address(address) ==
    /\ console = NoConsole
    /\ ~IsNone(active_cache)
    /\ response' =
           [handler |-> "decompose_address", success |-> TRUE,
            address |-> address,
            result |-> IF active_cache[1].cache_type = "direct-mapped"
                       THEN DM_decompose_address(active_cache[1], address)
                       ELSE FA_decompose_address(active_cache[1], address)]
    /\ UNCHANGED <<active_cache, touched, calls, console, threads>>

DecomposeNext == \E a \in DecomposeAddresses : decompose_address(a)

SpecDecompose == EngineInit /\ [][DecomposeNext]_vars

\* the (cache_size, block_size) pairs of a cache of one line
SingleLineSizes == {<<4, 4>>, <<8, 8>>}

\* a DirectMappedCache and a FullyAssociativeCache constructed with the same
\* sizes and write policy: the first is the instance, the second is kept
\* beside the results
PairInit ==
    /\ \E cfg \in SingleLineSizes, w \in WritePolicies :
           /\ active_cache = Some(DirectMappedCache(cfg[1], cfg[2], w))
           /\ response = [handler |-> "construct_pair",
                          twin |-> FullyAssociativeCache(cfg[1], cfg[2], w)]
    /\ touched = <<>>
    /\ calls = NoCalls
    /\ console = NoConsole
    /\ threads = NoThreads

\* access(address, operation) called on both instances
pair_access(address, operation) ==
    /\ NumCalls < MaxAccesses
    /\ LET d == DM_access(active_cache[1], address, operation, None)
           f == FA_access(response.twin, address, operation, None)
       IN /\ active_cache' = Some(d.self)
          /\ response' = [handler |-> "pair_access",
                          result |-> d.response, raised |-> d.raised,
                          twin |-> f.self,
                          twin_result |-> f.response, twin_raised |-> f.raised]
    /\ touched' = Touch(address)
    /\ calls' = Called(operation)
    /\ UNCHANGED <<console, threads>>

PairNext == \E a \in Addresses, op \in Operations : pair_access(a, op)

SpecPair == PairInit /\ [][PairNext]_vars

---------------------------------------------------------------------------
(* The console program (src/cache_simulator.py).  Its cache classes repeat  *)
(* those of the engine statement for statement, without the response       *)
(* dictionary, so the engine's access stands for theirs here and its       *)
(* response is dropped.  console is the program's position: at the main    *)
(* menu, in part 1..4 of run_sample_demo before access number i+1 of its   *)
(* address list, or in the access loop of interactive_mode.                *)

AtMenu == [mode |-> "menu"]

addresses1 == <<0, 16, 32, 0, 16, 32, 0, 16>>

addresses2 == <<0, 4, 8, 12, 0, 4, 8, 12>>

\* the cache each part of run_sample_demo builds: dm_cache, fa_cache,
\* wt_cache, wb_cache
DemoCache(part) ==
    CASE part = 1 -> DirectMappedCache(16, 4, "write-back")
      [] part = 2 -> FullyAssociativeCache(16, 4, "write-back")
      [] part = 3 -> DirectMappedCache(16, 4, "write-through")
      [] part = 4 -> DirectMappedCache(16, 4, "write-back")

DemoAddresses(part) == IF part <= 2 THEN addresses1 ELSE addresses2

\* i counts from 0 as enumerate does
DemoOperation(part, i) ==
    IF part <= 2
    THEN IF i % 4 = 0 THEN "write" ELSE "read"
    ELSE "write"

ConsoleInit ==
    /\ active_cache = None
    /\ response = [handler |-> "none"]
    /\ touched = <<>>
    /\ calls = NoCalls
    /\ console = AtMenu
    /\ threads = NoThreads

\* main menu, choice 1: run_sample_demo builds dm_cache
demo_start ==
    /\ console = AtMenu
    /\ console' = [mode |-> "demo", part |-> 1, i |-> 0]
    /\ active_cache' = Some(DemoCache(1))
    /\ touched' = <<>>
    /\ calls' = NoCalls
    /\ response' = [handler |-> "console"]
    /\ UNCHANGED threads

\* one iteration of a demo loop
demo_access ==
    /\ console.mode = "demo"
    /\ console.i < Len(DemoAddresses(console.part))
    /\ LET address == DemoAddresses(console.part)[console.i + 1]
           operation == DemoOperation(console.part, console.i)
           f == access(active_cache[1], address, operation, None)
       IN /\ active_cache' = Some(f.self)
          /\ touched' = Touch(address)
          /\ calls' = Called(operation)
    /\ console' = [console EXCEPT !.i = @ + 1]
    /\ response' = [handler |-> "console"]
    /\ UNCHANGED threads

\* a demo loop has ended and the next part builds its cache
demo_next_part ==
    /\ console.mode = "demo"
    /\ console.i = Len(DemoAddresses(console.part))
    /\ console.part < 4
    /\ console' = [mode |-> "demo", part |-> console.part + 1, i |-> 0]
    /\ active_cache' = Some(DemoCache(console.part + 1))
    /\ touched' = <<>>
    /\ calls' = NoCalls
    /\ response' = [handler |-> "console"]
    /\ UNCHANGED threads

\* run_sample_demo returns to the main menu
demo_end ==
    /\ console.mode = "demo"
    /\ console.i = Len(DemoAddresses(console.part))
    /\ console.part = 4
    /\ console' = AtMenu
    /\ active_cache' = None
    /\ touched' = <<>>
    /\ calls' = NoCalls
    /\ response' = [handler |-> "console"]
    /\ UNCHANGED threads

\* n > 0 and (n & (n - 1)) == 0
IsPowerOfTwo(n) == n > 0 /\ BitAnd(n, n - 1) = 0

\* main menu, choice 2: interactive_mode asks again until the sizes pass
\* its checks, then builds the cache
interactive_start(cache_size, block_size, cache_type, write_policy) ==
    /\ console = AtMenu
    /\ IsPowerOfTwo(cache_size)
    /\ IsPowerOfTwo(block_size)
    /\ block_size <= cache_size
    /\ console' = [mode |-> "interactive"]
    /\ active_cache' = Some(Construct(cache_type, cache_size, block_size,
                                      write_policy))
    /\ touched' = <<>>
    /\ calls' = NoCalls
    /\ response' = [handler |-> "console"]
    /\ UNCHANGED threads

\* one iteration of the loop over the entered addresses and operations
interactive_access(address, operation) ==
    /\ console.mode = "interactive"
    /\ NumCalls < MaxEntered
    /\ LET f == access(active_cache[1], address, operation, None)
       IN /\ active_cache' = Some(f.self)
          /\ touched' = Touch(address)
          /\ calls' = Called(operation)
    /\ UNCHANGED <<console, threads>>
    /\ response' = [handler |-> "console"]

\* the entered list is exhausted and interactive_mode returns
interactive_end ==
    /\ console.mode = "interactive"
    /\ console' = AtMenu
    /\ active_cache' = None
    /\ touched' = <<>>
    /\ calls' = NoCalls
    /\ response' = [handler |-> "console"]
    /\ UNCHANGED threads

ConsoleNext ==
    \/ demo_start
    \/ demo_access
    \/ demo_next_part
    \/ demo_end
    \/ \E cs \in EnteredSizes, bs \in EnteredSizes, t \in CacheTypes,
          w \in WritePolicies : interactive_start(cs, bs, t, w)
    \/ \E a \in EnteredAddresses, op \in Operations : interactive_access(a, op)
    \/ interactive_end

SpecDemo == ConsoleInit /\ [][ConsoleNext]_vars

---------------------------------------------------------------------------
(* Concurrent requests.  app.py takes no lock and the engine has none, so  *)
(* two request threads may be inside access on the same instance.  A       *)
(* thread may be suspended wherever the interpreter enters a Python        *)
(* function, so the code between two such calls is one step here; a finer  *)
(* interleaving only adds behaviours.  threads[t].pc names the call thread *)
(* t is about to make, and the other fields are its local variables:      *)
(* address, operation, the response dictionary built so far (resp) and     *)
(* hit_line or target_line (line).                                         *)

\* number of access requests the threads handle on one instance
MaxConcurrent == 2

\* the sizes of the instance the threads share: one line and two lines
ThreadConfigSizes == {<<4, 4>>, <<8, 4>>}

\* thread th at its next call, with its locals
At(pc, th, resp, line) ==
    [pc |-> pc, address |-> th.address, operation |-> th.operation,
     resp |-> resp, line |-> line]

\* one step of thread t inside access
ThreadStep(t, self, th) ==
    /\ active_cache' = Some(self)
    /\ threads' = [threads EXCEPT ![t] = th]
    /\ UNCHANGED <<response, touched, calls, console>>

\* cache_access up to the call `active_cache.access(address, operation)`
thread_begin(t, address, operation) ==
    /\ console = NoConsole
    /\ threads[t].pc = "idle"
    /\ IF IsNone(active_cache)
       THEN /\ response' = [handler |-> "cache_access", success |-> FALSE,
                            status |-> 400, error |-> "No active cache. Create a cache first."]
            /\ UNCHANGED <<active_cache, touched, calls, threads>>
       ELSE /\ NumCalls < MaxConcurrent
            /\ threads' = [threads EXCEPT ![t] =
                               [pc |-> "access", address |-> address,
                                operation |-> operation]]
            /\ touched' = Touch(address)
            /\ calls' = Called(operation)
            /\ UNCHANGED <<active_cache, response>>
    /\ UNCHANGED console

\* access, first statement: self.total_accesses += 1, up to the call of
\* decompose_address
thread_count(t) ==
    /\ threads[t].pc = "access"
    /\ ThreadStep(t, CountAccess(active_cache[1]),
                  [threads[t] EXCEPT !.pc = "decomposed"])

\* DirectMappedCache.access from the response dictionary to the call of
\* _handle_write_hit or _fetch_from_memory, or to the last step on a read hit
dm_probe(t) ==
    /\ threads[t].pc = "decomposed"
    /\ active_cache[1].cache_type = "direct-mapped"
    /\ LET self == active_cache[1]
           th == threads[t]
           d == DM_decompose_address(self, th.address)
           r0 == [access_number |-> self.total_accesses,
                  address |-> th.address,
                  operation |-> th.operation,
                  decomposition |-> d,
                  steps |-> <<>>,
                  hit |-> FALSE,
                  eviction |-> FALSE,
                  dirty_writeback |-> FALSE,
                  affected_line |-> Some(d.index),
                  cache_state |-> <<>>,
                  statistics |-> None]
       IN IF d.index \notin DOMAIN self.cache
          THEN /\ response' = [handler |-> "cache_access", success |-> FALSE,
                               status |-> 400, error |-> "IndexError"]
               /\ threads' = [threads EXCEPT ![t] = Idle]
               /\ UNCHANGED <<active_cache, touched, calls, console>>
          ELSE
          LET cache_line == self.cache[d.index]
              r1 == AddStep(r0, "Fetch")
          IN IF DM_tag_matches(cache_line, d.tag)
             THEN ThreadStep(t, CountHit(self),
                      At(IF th.operation = "write" THEN "write_hit" ELSE "finish",
                         th,
                         AddStep(AddStep([r1 EXCEPT !.hit = TRUE],
                                         "Compare Tag"), "Hit/Miss"),
                         Some(d.index)))
             ELSE LET self2 == CountMiss(self)
                      wb == cache_line.valid = 1
                            /\ EvictionWritesBack(self2.write_policy, cache_line)
                      r3 == IF cache_line.valid = 1
                            THEN [AddStep(r1, "Compare Tag") EXCEPT
                                      !.eviction = TRUE,
                                      !.dirty_writeback = wb]
                            ELSE AddStep(r1, "Compare Tag")
                  IN ThreadStep(t,
                         IF wb THEN [self2 EXCEPT !.memory_writes = @ + 1]
                         ELSE self2,
                         At("fetch", th, AddStep(r3, "Hit/Miss"), Some(d.index)))

\* FullyAssociativeCache.access from the response dictionary to the call of
\* _find_block
fa_begin_search(t) ==
    /\ threads[t].pc = "decomposed"
    /\ active_cache[1].cache_type = "fully-associative"
    /\ LET self == active_cache[1]
           th == threads[t]
       IN ThreadStep(t, self,
              At("search", th,
                 [access_number |-> self.total_accesses,
                  address |-> th.address,
                  operation |-> th.operation,
                  decomposition |-> FA_decompose_address(self, th.address),
                  steps |-> <<"Search">>,
                  hit |-> FALSE,
                  eviction |-> FALSE,
                  dirty_writeback |-> FALSE,
                  affected_line |-> None,
                  cache_state |-> <<>>,
                  statistics |-> None],
                 None))

\* _find_block and the branch on its result, up to the call of _update_lru
\* (hit) or _find_empty_line (miss)
fa_search(t) ==
    /\ threads[t].pc = "search"
    /\ LET self == active_cache[1]
           th == threads[t]
           hit_line == FA_find_block(self, th.resp.decomposition.tag)
       IN IF ~IsNone(hit_line)
          THEN ThreadStep(t, CountHit(self),
                   At("hit_update", th,
                      AddStep(AddStep([th.resp EXCEPT !.hit = TRUE,
                                                      !.affected_line = hit_line],
                                      "Compare Tag"), "Hit/Miss"),
                      hit_line))
          ELSE ThreadStep(t, CountMiss(self),
                   At("find_empty", th,
                      AddStep(AddStep([th.resp EXCEPT !.hit = FALSE],
                                      "Compare Tag"), "Hit/Miss"),
                      None))

\* _update_lru(hit_line) on the hit branch
fa_hit_update_lru(t) ==
    /\ threads[t].pc = "hit_update"
    /\ LET th == threads[t]
       IN ThreadStep(t, FA_update_lru(active_cache[1], th.line[1]),
              At(IF th.operation = "write" THEN "write_hit" ELSE "finish",
                 th, th.resp, th.line))

\* _handle_write_hit of either variant
thread_write_hit(t) ==
    /\ threads[t].pc = "write_hit"
    /\ LET self == active_cache[1]
           th == threads[t]
           f == IF self.cache_type = "direct-mapped"
                THEN DM_handle_write_hit(self, th.line[1], th.address, None, th.resp)
                ELSE FA_handle_write_hit(self, th.line[1], th.address, None, th.resp)
       IN ThreadStep(t, f.self, At("finish", th, f.response, th.line))

\* _find_empty_line, up to the call of _fetch_from_memory when there is an
\* empty line and of _evict_lru when there is none
fa_find_empty(t) ==
    /\ threads[t].pc = "find_empty"
    /\ LET self == active_cache[1]
           th == threads[t]
           empty_line == FA_find_empty_line(self)
       IN IF ~IsNone(empty_line)
          THEN ThreadStep(t, self,
                   At("fetch", th,
                      [th.resp EXCEPT !.affected_line = empty_line],
                      empty_line))
          ELSE ThreadStep(t, self, At("evict", th, th.resp, None))

\* _evict_lru and the write-back of the victim, up to the call of
\* _fetch_from_memory
fa_evict(t) ==
    /\ threads[t].pc = "evict"
    /\ LET self == active_cache[1]
           th == threads[t]
       IN IF FA_evict_lru_raises(self)
          THEN /\ response' = [handler |-> "cache_access", success |-> FALSE,
                               status |-> 400, error |-> "StopIteration"]
               /\ threads' = [threads EXCEPT ![t] = Idle]
               /\ UNCHANGED <<active_cache, touched, calls, console>>
          ELSE LET target_line == FA_evict_lru(self)
                   wb == EvictionWritesBack(self.write_policy,
                                            self.cache[target_line])
               IN ThreadStep(t,
                      IF wb THEN [self EXCEPT !.memory_writes = @ + 1] ELSE self,
                      At("fetch", th,
                         [th.resp EXCEPT !.eviction = TRUE,
                                         !.dirty_writeback = wb,
                                         !.affected_line = Some(target_line)],
                         Some(target_line)))

\* _fetch_from_memory of either variant; the associative variant then calls
\* _update_lru
thread_fetch(t) ==
    /\ threads[t].pc = "fetch"
    /\ LET self == active_cache[1]
           th == threads[t]
           tag == th.resp.decomposition.tag
       IN IF self.cache_type = "direct-mapped"
          THEN LET f == DM_fetch_from_memory(self, th.line[1], tag, th.address,
                                             th.operation, None, th.resp)
               IN ThreadStep(t, f.self, At("finish", th, f.response, th.line))
          ELSE LET f == FA_fetch_from_memory(self, th.line[1], tag, th.address,
                                             th.operation, None, th.resp)
               IN ThreadStep(t, f.self, At("miss_update", th, f.response, th.line))

\* _update_lru(target_line) on the miss branch
fa_miss_update_lru(t) ==
    /\ threads[t].pc = "miss_update"
    /\ LET th == threads[t]
       IN ThreadStep(t, FA_update_lru(active_cache[1], th.line[1]),
              At("finish", th, th.resp, th.line))

\* the end of access and of cache_access: the last step, the snapshot, and
\* the reply to the request
thread_finish(t) ==
    /\ threads[t].pc = "finish"
    /\ LET f == FinishAccess(Frame(active_cache[1], threads[t].resp))
       IN /\ response' = [handler |-> "cache_access", success |-> TRUE,
                          status |-> 200, result |-> f.response]
          /\ threads' = [threads EXCEPT ![t] = Idle]
    /\ UNCHANGED <<active_cache, touched, calls, console>>

\* the serving process with one create request, then access requests on
\* two threads
ThreadsNext ==
    \/ \E cfg \in ThreadConfigSizes, ct \in CacheTypes, w \in WritePolicies :
           /\ IsNone(active_cache)
           /\ create_cache(cfg[1], cfg[2], ct, w)
    \/ \E t \in Threads, a \in Addresses, op \in Operations :
           thread_begin(t, a, op)
    \/ \E t \in Threads : thread_count(t)
    \/ \E t \in Threads : dm_probe(t)
    \/ \E t \in Threads : fa_begin_search(t)
    \/ \E t \in Threads : fa_search(t)
    \/ \E t \in Threads : fa_hit_update_lru(t)
    \/ \E t \in Threads : thread_write_hit(t)
    \/ \E t \in Threads : fa_find_empty(t)
    \/ \E t \in Threads : fa_evict(t)
    \/ \E t \in Threads : thread_fetch(t)
    \/ \E t \in Threads : fa_miss_update_lru(t)
    \/ \E t \in Threads : thread_finish(t)

SpecThreads == Init /\ [][ThreadsNext]_vars

---------------------------------------------------------------------------
(* Vocabulary of the properties *)

HasCache == ~IsNone(active_cache)

Lines(self) == DOMAIN self.cache

ValidLines(self) == {l \in Lines(self) : self.cache[l].valid = 1}

DirtyLines(self) == {l \in Lines(self) : self.cache[l].dirty = 1}

Max(S) == CHOOSE x \in S : \A y \in S : y <= x

\* n is an exact power of two
PowerOfTwo(n) == \E k \in 0..n : n = Pow2(k)

\* the size invariants of a cache configuration
ValidConfiguration(cache_size, block_size) ==
    /\ cache_size > 0
    /\ block_size > 0
    /\ block_size <= cache_size
    /\ cache_size % block_size = 0
    /\ PowerOfTwo(block_size)
    /\ PowerOfTwo(cache_size \div block_size)

ValidInstance(self) == ValidConfiguration(self.cache_size, self.block_size)

\* the last step was a call of access that returned its result
Accessed ==
    /\ response.handler \in {"access", "cache_access"}
    /\ response.success

---------------------------------------------------------------------------
(* C1: in the initial state and after every access, of either variant and  *)
(* either write policy, hits + misses = total_accesses.                    *)

C1_HitsPlusMisses ==
    HasCache =>
        active_cache[1].hits + active_cache[1].misses
            = active_cache[1].total_accesses

C1_Witness ==
    /\ HasCache
    /\ active_cache[1].hits >= 1
    /\ active_cache[1].misses >= 2
    /\ active_cache[1].total_accesses = 4

---------------------------------------------------------------------------
(* C2: fully associative: when a miss occurs while every line is valid,    *)
(* the one line that is replaced is the valid line whose most recent touch *)
(* (the hit on it or fill into it, that is, the most recent access to the  *)
(* block it holds) is older than that of every other valid line; read hits *)
(* count as touches.                                                       *)

\* position in touched of the most recent access to the block with this tag
LastTouch(self, tag) ==
    LET S == {k \in 1..Len(touched) :
                 FA_decompose_address(self, touched[k]).tag = tag[1]}
    IN IF S = {} THEN 0 ELSE Max(S)

\* the lines whose block differs after the step
Replaced == {l \in Lines(active_cache[1]) :
                active_cache'[1].cache[l] # active_cache[1].cache[l]}

C2_FullMiss ==
    /\ HasCache
    /\ active_cache[1].cache_type = "fully-associative"
    /\ Lines(active_cache[1]) # {}
    /\ ValidLines(active_cache[1]) = Lines(active_cache[1])
    /\ active_cache'[1].misses = active_cache[1].misses + 1

C2_EvictsLeastRecentlyUsed ==
    [][C2_FullMiss =>
        \E victim \in Lines(active_cache[1]) :
            /\ Replaced = {victim}
            /\ response'.result.affected_line = Some(victim)
            /\ \A l \in Lines(active_cache[1]) \ {victim} :
                   LastTouch(active_cache[1], active_cache[1].cache[l].tag)
                       > LastTouch(active_cache[1],
                                   active_cache[1].cache[victim].tag)]_vars

\* two lines: after fill, fill, hit on the first, the miss evicts line 1
C2_Witness ==
    /\ HasCache
    /\ active_cache[1].cache_type = "fully-associative"
    /\ active_cache[1].num_blocks = 2
    /\ Accessed
    /\ response.result.eviction
    /\ response.result.affected_line = Some(1)
    /\ active_cache[1].hits = 1
    /\ active_cache[1].misses = 3

---------------------------------------------------------------------------
(* C3: direct-mapped: for every line i and tag t, line i is valid with tag *)
(* t if and only if some access so far decomposed to index i and the most  *)
(* recent such access carried tag t.                                       *)

\* positions in touched of the addresses that decompose to index i
AccessesToIndex(self, i) ==
    {k \in 1..Len(touched) : DM_decompose_address(self, touched[k]).index = i}

TagsSeen(self) ==
    {DM_decompose_address(self, a).tag : a \in Addresses}
        \cup {self.cache[l].tag[1] : l \in ValidLines(self)}

C3_DirectMappedResidency ==
    (HasCache /\ active_cache[1].cache_type = "direct-mapped") =>
        \A i \in Lines(active_cache[1]) : \A t \in TagsSeen(active_cache[1]) :
            (/\ active_cache[1].cache[i].valid = 1
             /\ active_cache[1].cache[i].tag = Some(t))
            <=>
            (/\ AccessesToIndex(active_cache[1], i) # {}
             /\ DM_decompose_address(
                    active_cache[1],
                    touched[Max(AccessesToIndex(active_cache[1], i))]).tag = t)

\* two lines: index 0 was accessed with tag 0, then with tag 1, and index
\* 1 once
C3_Witness ==
    /\ HasCache
    /\ active_cache[1].cache_type = "direct-mapped"
    /\ active_cache[1].num_blocks = 2
    /\ ValidLines(active_cache[1]) = {0, 1}
    /\ active_cache[1].cache[0].tag = Some(1)
    /\ Accessed
    /\ response.result.eviction
    /\ Len(touched) = 3

---------------------------------------------------------------------------
(* C4: under the write-through policy no line of either variant is ever    *)
(* dirty.                                                                  *)

C4_WriteThroughNeverDirty ==
    (HasCache /\ active_cache[1].write_policy = "write-through") =>
        DirtyLines(active_cache[1]) = {}

\* a write miss and a write hit have both happened
C4_Witness ==
    /\ HasCache
    /\ active_cache[1].write_policy = "write-through"
    /\ calls.write >= 2
    /\ active_cache[1].hits >= 1
    /\ Accessed
    /\ response.result.hit
    /\ response.result.operation = "write"

---------------------------------------------------------------------------
(* C5: when an access evicts a valid line, under write-back memory_writes  *)
(* grows by one if the evicted line was dirty and not at all if it was     *)
(* clean, and dirty_writeback is true exactly in the first case; under     *)
(* write-through the eviction adds nothing: memory_writes grows by one for *)
(* a write (its propagation) and not at all for a read, and dirty_writeback*)
(* is false.                                                               *)

\* the step is a miss that overwrites a line that was valid
C5_Evicts(victim) ==
    /\ HasCache
    /\ victim \in ValidLines(active_cache[1])
    /\ active_cache'[1].misses = active_cache[1].misses + 1
    /\ response'.success
    /\ response'.result.affected_line = Some(victim)

C5_EvictionWriteBack ==
    [][\A victim \in (IF HasCache THEN Lines(active_cache[1]) ELSE {}) :
        C5_Evicts(victim) =>
            LET old == active_cache[1]
                new == active_cache'[1]
                was_dirty == old.cache[victim].dirty = 1
                written == new.memory_writes - old.memory_writes
            IN IF old.write_policy = "write-back"
               THEN /\ written = (IF was_dirty THEN 1 ELSE 0)
                    /\ response'.result.dirty_writeback = was_dirty
               ELSE /\ old.write_policy = "write-through"
                    /\ written = (IF response'.result.operation = "write"
                                  THEN 1 ELSE 0)
                    /\ response'.result.dirty_writeback = FALSE]_vars

C5_Witness ==
    /\ HasCache
    /\ active_cache[1].write_policy = "write-back"
    /\ Accessed
    /\ response.result.eviction
    /\ response.result.dirty_writeback
    /\ active_cache[1].memory_writes = 1

\* a clean line evicted under write-back
C5_WitnessClean ==
    /\ HasCache
    /\ active_cache[1].write_policy = "write-back"
    /\ Accessed
    /\ response.result.eviction
    /\ ~response.result.dirty_writeback

---------------------------------------------------------------------------
(* C6: a create request whose sizes violate a size invariant fails and     *)
(* leaves no instance behind; in particular cache_size = 15 with           *)
(* block_size = 4 fails.                                                   *)

C6_CreateRejectsInvalid ==
    (response.handler = "create_cache" /\ response.success) =>
        ValidConfiguration(response.cache_state.size,
                           response.cache_state.block_size)

\* the instances the adapter holds all come from valid sizes
C6_NoInvalidInstance ==
    HasCache => ValidInstance(active_cache[1])

---------------------------------------------------------------------------
(* C7: reset after any access sequence leaves an instance with all five    *)
(* counters zero and every line invalid, with the total size, block size,  *)
(* placement variant and write policy it had before; it equals a fresh     *)
(* instance of that configuration.                                         *)

C7_IsReset == response'.handler = "reset_cache" /\ response'.success

C7_ResetRestores ==
    [][C7_IsReset =>
        LET old == active_cache[1]
            new == active_cache'[1]
        IN /\ new.total_accesses = 0
           /\ new.hits = 0
           /\ new.misses = 0
           /\ new.memory_reads = 0
           /\ new.memory_writes = 0
           /\ \A l \in Lines(new) : new.cache[l] = CacheBlock
           /\ Lines(new) = Lines(old)
           /\ new.order = Range(old.num_blocks)
           /\ new.cache_size = old.cache_size
           /\ new.block_size = old.block_size
           /\ new.cache_type = old.cache_type
           /\ new.write_policy = old.write_policy
           /\ new = Construct(old.cache_type, old.cache_size, old.block_size,
                              old.write_policy)]_vars

\* a reset has just answered; C7_WitnessBefore is a state it can act on
C7_Witness ==
    /\ response.handler = "reset_cache"
    /\ response.success
    /\ active_cache[1].write_policy = "write-back"
    /\ active_cache[1].cache_type = "fully-associative"
    /\ active_cache[1].num_blocks = 2

C7_WitnessBefore ==
    /\ HasCache
    /\ active_cache[1].write_policy = "write-back"
    /\ active_cache[1].cache_type = "fully-associative"
    /\ active_cache[1].total_accesses = 2
    /\ active_cache[1].order # Range(active_cache[1].num_blocks)
    /\ DirtyLines(active_cache[1]) # {}
    /\ ENABLED reset_cache

---------------------------------------------------------------------------
(* C8: on an instance built from a valid configuration access never fails: *)
(* whatever the address, the operation and the state of the cache, it      *)
(* returns its result.                                                     *)

C8_WitnessFails ==
    /\ HasCache
    /\ response.handler = "access"
    /\ ~response.success

---------------------------------------------------------------------------
(* C9: for every line, tag and stored value are defined if and only if the *)
(* line is valid, and an invalid line is not dirty.                        *)

C9_LineWellFormed ==
    HasCache =>
        \A l \in Lines(active_cache[1]) :
            LET block == active_cache[1].cache[l]
            IN /\ ~IsNone(block.tag) <=> block.valid = 1
               /\ ~IsNone(block.data) <=> block.valid = 1
               /\ block.valid = 0 => block.dirty = 0
               /\ block.valid \in {0, 1}
               /\ block.dirty \in {0, 1}

C9_Witness ==
    /\ HasCache
    /\ ValidLines(active_cache[1]) # {}
    /\ ValidLines(active_cache[1]) # Lines(active_cache[1])
    /\ DirtyLines(active_cache[1]) # {}
    /\ active_cache[1].misses >= 2

---------------------------------------------------------------------------
(* C10: under write-through every write access, hit or miss, adds one to   *)
(* memory_writes and no read adds any, so memory_writes is the number of   *)
(* write accesses so far; the direct-mapped 16-byte cache with 4-byte      *)
(* blocks ends the all-write sequence 0,4,8,12,0,4,8,12 with               *)
(* memory_writes = 8 and memory_reads = 4.                                 *)

\* run_sample_demo has finished the loop of its write-through part
WriteThroughDemoDone ==
    /\ console.mode = "demo"
    /\ console.part = 3
    /\ console.i = 8

C10_WriteThroughWrites ==
    /\ (HasCache /\ active_cache[1].write_policy = "write-through") =>
           active_cache[1].memory_writes = calls.write
    /\ WriteThroughDemoDone =>
           /\ active_cache[1].memory_writes = 8
           /\ active_cache[1].memory_reads = 4

C10_Witness ==
    /\ WriteThroughDemoDone
    /\ active_cache[1].write_policy = "write-through"
    /\ active_cache[1].hits = 4
    /\ calls.write = 8

---------------------------------------------------------------------------
(* C11: under write-back an access that evicts nothing, that is any hit    *)
(* and any miss that fills a line that was invalid, leaves memory_writes   *)
(* unchanged, read or write; the direct-mapped 16-byte cache with 4-byte   *)
(* blocks ends the all-write sequence 0,4,8,12,0,4,8,12 with all four      *)
(* lines dirty, memory_writes = 0 and memory_reads = 4.                    *)

\* this step is one call of access on the current instance
AccessStep ==
    /\ HasCache
    /\ HasCache'
    /\ active_cache'[1].total_accesses = active_cache[1].total_accesses + 1

\* the call of this step was a hit, or a miss that filled an invalid line
EvictsNothing ==
    \/ active_cache'[1].hits = active_cache[1].hits + 1
    \/ /\ active_cache'[1].misses = active_cache[1].misses + 1
       /\ Cardinality(ValidLines(active_cache'[1]))
              = Cardinality(ValidLines(active_cache[1])) + 1

\* run_sample_demo has finished the loop of its write-back part
WriteBackDemoDone ==
    /\ console.mode = "demo"
    /\ console.part = 4
    /\ console.i = 8

\* C11: under write-back an access without eviction writes nothing to memory,
\* and the write-back demo ends with four dirty lines, 0 writes and 4 reads
C11_NoEvictionNoMemoryWrite ==
    [][/\ (/\ AccessStep
           /\ active_cache[1].write_policy = "write-back"
           /\ EvictsNothing)
          => active_cache'[1].memory_writes = active_cache[1].memory_writes
       /\ WriteBackDemoDone' =>
              /\ DirtyLines(active_cache'[1]) = {0, 1, 2, 3}
              /\ active_cache'[1].memory_writes = 0
              /\ active_cache'[1].memory_reads = 4]_vars

\* the write-back demo has ended after four write misses into invalid lines
\* and four write hits
C11_Witness ==
    /\ WriteBackDemoDone
    /\ active_cache[1].write_policy = "write-back"
    /\ active_cache[1].hits = 4
    /\ active_cache[1].misses = 4
    /\ calls.write = 8

\* an eviction under write-back that did write a dirty victim back
C11_WitnessEviction ==
    /\ HasCache
    /\ active_cache[1].write_policy = "write-back"
    /\ active_cache[1].memory_writes > 0

---------------------------------------------------------------------------
(* C12: the direct-mapped write-back 16-byte cache with 4-byte blocks      *)
(* accessed with 0,16,32,0,16,32,0,16, writes at positions 0 and 4 and     *)
(* reads elsewhere: the three addresses decompose to index 0 with tags     *)
(* 0, 1, 2, each of the 8 accesses is a miss, and the run ends with        *)
(* hits = 0 and misses = 8.                                                *)

\* run_sample_demo is in the loop of its part p, or has just finished it
InDemoPart(p) ==
    /\ console.mode = "demo"
    /\ console.part = p

\* C12: in the direct-mapped demo every access is a miss; 0 hits, 8 misses
C12_DirectMappedConflictMisses ==
    InDemoPart(1) =>
        LET self == active_cache[1] IN
        /\ self.cache_type = "direct-mapped"
        /\ self.write_policy = "write-back"
        /\ self.cache_size = 16
        /\ self.block_size = 4
        /\ DemoAddresses(1) = <<0, 16, 32, 0, 16, 32, 0, 16>>
        /\ \A k \in 0..7 : (DemoOperation(1, k) = "write") <=> (k \in {0, 4})
        /\ [k \in 1..8 |-> DM_decompose_address(self, DemoAddresses(1)[k]).index]
               = <<0, 0, 0, 0, 0, 0, 0, 0>>
        /\ [k \in 1..8 |-> DM_decompose_address(self, DemoAddresses(1)[k]).tag]
               = <<0, 1, 2, 0, 1, 2, 0, 1>>
        /\ self.hits = 0
        /\ self.misses = console.i
        /\ console.i = 8 => self.misses = 8

\* the loop of part 1 has run its eight accesses
C12_Witness ==
    /\ InDemoPart(1)
    /\ console.i = 8
    /\ active_cache[1].total_accesses = 8
    /\ calls.write = 2
    /\ calls.read = 6

---------------------------------------------------------------------------
(* C13: the fully associative write-back 16-byte cache with 4-byte blocks  *)
(* accessed with 0,16,32,0,16,32,0,16, writes at positions 0 and 4: the    *)
(* tags are 0, 4, 8, nothing is evicted, the first access to each address  *)
(* misses and every repeat hits, and the run ends with hits = 5 and        *)
(* misses = 3.                                                             *)

C13_AssociativeDemoHits ==
    InDemoPart(2) =>
        LET self == active_cache[1] IN
        /\ self.cache_type = "fully-associative"
        /\ self.write_policy = "write-back"
        /\ self.cache_size = 16
        /\ self.block_size = 4
        /\ DemoAddresses(2) = <<0, 16, 32, 0, 16, 32, 0, 16>>
        /\ \A k \in 0..7 : (DemoOperation(2, k) = "write") <=> (k \in {0, 4})
        /\ [k \in 1..8 |-> FA_decompose_address(self, DemoAddresses(2)[k]).tag]
               = <<0, 4, 8, 0, 4, 8, 0, 4>>
        \* one miss per distinct address accessed so far, the rest are hits
        /\ self.misses = Len(touched)
        /\ self.hits = console.i - Len(touched)
        \* every block ever installed is still resident
        /\ Cardinality(ValidLines(self)) = self.misses
        /\ {self.cache[l].tag : l \in ValidLines(self)}
               = {Some(FA_decompose_address(self, touched[k]).tag) :
                      k \in 1..Len(touched)}
        /\ console.i = 8 => (self.hits = 5 /\ self.misses = 3)

\* the loop of part 2 has run its eight accesses
C13_Witness ==
    /\ InDemoPart(2)
    /\ console.i = 8
    /\ active_cache[1].total_accesses = 8
    /\ active_cache[1].hits = 5
    /\ Len(touched) = 3

---------------------------------------------------------------------------
(* C14: a successful create leaves an instance whose lines are all invalid *)
(* (no tag, no stored value, not dirty) and whose total_accesses, hits,    *)
(* misses, memory_reads and memory_writes are all zero, for either variant *)
(* and either write policy; the snapshot the request returns says the same. *)

\* the last request was a create_cache that succeeded
Created ==
    /\ response.handler = "create_cache"
    /\ response.success

\* the five counters of an instance
Counters(self) ==
    <<self.total_accesses, self.hits, self.misses,
      self.memory_reads, self.memory_writes>>

\* C14: after a successful create all lines are invalid and all counters zero
C14_CreateIsFresh ==
    Created =>
        /\ HasCache
        /\ LET self == active_cache[1] IN
           /\ \A l \in Lines(self) :
                  /\ self.cache[l].valid = 0
                  /\ self.cache[l].tag = None
                  /\ self.cache[l].data = None
                  /\ self.cache[l].dirty = 0
           /\ Counters(self) = <<0, 0, 0, 0, 0>>
           /\ Len(response.cache_state.lines) = Cardinality(Lines(self))
           /\ \A k \in DOMAIN response.cache_state.lines :
                  response.cache_state.lines[k] = to_dict(CacheBlock)
           /\ response.cache_state.statistics.total_accesses = 0
           /\ response.cache_state.statistics.total_memory_traffic = 0

\* a create of a two-line associative write-back cache has succeeded
C14_Witness ==
    /\ Created
    /\ active_cache[1].cache_type = "fully-associative"
    /\ active_cache[1].write_policy = "write-back"
    /\ Cardinality(Lines(active_cache[1])) = 2

\* the same for a direct-mapped write-through cache
C14_WitnessDirectMapped ==
    /\ Created
    /\ active_cache[1].cache_type = "direct-mapped"
    /\ active_cache[1].write_policy = "write-through"
    /\ Cardinality(Lines(active_cache[1])) = 2

---------------------------------------------------------------------------
(* C15: every result of access lists its steps in one fixed order: the     *)
(* probe of the line or lines, the tag comparison, the hit or miss         *)
(* decision, then the write step on a write hit or the memory fetch step   *)
(* on a miss, then the cache update.  The write step appears only on a     *)
(* write hit, the memory fetch step on every miss and on no hit, and on a  *)
(* miss that replaces a valid line the result records the eviction, and    *)
(* the write-back when the victim was dirty under write-back.  The code    *)
(* has no step of its own for the decomposition, the eviction or the final *)
(* snapshot: they are the result's decomposition field, its eviction and   *)
(* dirty_writeback flags, and its cache_state and statistics.              *)

\* the first step: DirectMappedCache.access probes one line,
\* FullyAssociativeCache.access searches all
ProbeStep(self) == IF self.cache_type = "direct-mapped" THEN "Fetch" ELSE "Search"

\* the steps between the decision and the update
MiddleSteps(result) ==
    IF result.hit
    THEN IF result.operation = "write" THEN <<"Write">> ELSE <<>>
    ELSE <<"Memory Fetch">>

StepNames(seq) == {seq[k] : k \in DOMAIN seq}

C15_WitnessWriteHit ==
    /\ Accessed
    /\ response.result.hit
    /\ response.result.operation = "write"
    /\ response.result.steps[4] = "Write"

\* a miss that replaced a clean line
C15_WitnessCleanEviction ==
    /\ Accessed
    /\ response.result.eviction
    /\ ~response.result.dirty_writeback
    /\ active_cache[1].write_policy = "write-back"

---------------------------------------------------------------------------
(* C16: two concurrent access requests on one instance are serialized, so  *)
(* that once both have completed hits + misses = total_accesses = the      *)
(* number of calls, and in the associative variant no tag is resident in   *)
(* two valid lines.                                                        *)

\* no request is inside a handler
AllIdle == \A t \in Threads : threads[t] = Idle

InFlight == {t \in Threads : threads[t].pc # "idle"}

\* no tag is held by two valid lines
NoDuplicateTag(self) ==
    \A l1, l2 \in ValidLines(self) :
        self.cache[l1].tag = self.cache[l2].tag => l1 = l2

\* C16: once concurrent accesses have completed the counters are consistent
\* with the number of calls and no tag is resident twice
C16_ConcurrentAccessSerialized ==
    (HasCache /\ AllIdle) =>
        LET self == active_cache[1] IN
        /\ self.hits + self.misses = self.total_accesses
        /\ self.total_accesses = NumCalls
        /\ self.cache_type = "fully-associative" => NoDuplicateTag(self)

\* at most one call of access is in flight on the instance
C16_OneInFlight == Cardinality(InFlight) <= 1

---------------------------------------------------------------------------
(* C17: an access, get_state or reset request that arrives when no cache   *)
(* has been created is answered with an error and leaves the adapter       *)
(* without a cache: no instance is built and no call is counted.           *)

\* this step handled an access, get_state or reset request
InstanceRequest ==
    /\ response'.handler \in {"cache_access", "get_state", "reset_cache"}
    /\ \/ response' # response
       \/ UNCHANGED vars

\* C17: without a cache, access, get_state and reset answer with an error and
\* build nothing
C17_NoCacheIsAnError ==
    [][(IsNone(active_cache) /\ InstanceRequest) =>
          /\ ~response'.success
          /\ response'.status = 400
          /\ response'.error \in {"No active cache",
                                  "No active cache. Create a cache first."}
          /\ IsNone(active_cache')
          /\ UNCHANGED <<touched, calls>>]_vars

\* an access request was refused for want of a cache
C17_Witness ==
    /\ IsNone(active_cache)
    /\ response.handler = "cache_access"
    /\ ~response.success

\* the same for get_state and for reset
C17_WitnessGetState ==
    /\ IsNone(active_cache)
    /\ response.handler = "get_state"
    /\ ~response.success

C17_WitnessReset ==
    /\ IsNone(active_cache)
    /\ response.handler = "reset_cache"
    /\ ~response.success

---------------------------------------------------------------------------
(* C18: total_accesses, hits, misses, memory_reads and memory_writes never *)
(* decrease across an access or a get_state request; they return to zero   *)
(* only when the cache is built anew, by a create or a reset request.      *)

\* the last request built the cache anew
Recreated ==
    /\ response.handler \in {"create_cache", "reset_cache"}
    /\ response.success

\* no counter of the second tuple is below its counterpart in the first
NoneLower(before, after) == \A k \in 1..5 : after[k] >= before[k]

\* C18: the counters never decrease except to zero on a create or a reset
C18_CountersMonotonic ==
    [][(HasCache /\ HasCache') =>
          LET before == Counters(active_cache[1])
              after == Counters(active_cache'[1])
          IN /\ response'.handler \in {"cache_access", "access", "get_state"}
                    => NoneLower(before, after)
             /\ ~NoneLower(before, after)
                    => (Recreated' /\ after = <<0, 0, 0, 0, 0>>)]_vars

\* two accesses have raised every counter
C18_Witness ==
    /\ Accessed
    /\ active_cache[1].total_accesses = 2
    /\ active_cache[1].hits = 1
    /\ active_cache[1].misses = 1
    /\ active_cache[1].memory_reads = 1
    /\ active_cache[1].memory_writes = 2

\* a reset has brought the counters back to zero
C18_WitnessReset ==
    /\ response.handler = "reset_cache"
    /\ response.success
    /\ Counters(active_cache[1]) = <<0, 0, 0, 0, 0>>

---------------------------------------------------------------------------
(* C19: a get_state request changes nothing: the lines, the key order of   *)
(* the associative variant, the five counters and the configuration are    *)
(* the same before and after, and the snapshot it returns lists the        *)
(* current lines and statistics.                                           *)

\* this step handled a get_state request
GetStateRequest ==
    /\ response'.handler = "get_state"
    /\ \/ response' # response
       \/ UNCHANGED vars

\* C19: get_state changes nothing and returns the current lines and statistics
C19_GetStateReadOnly ==
    [][GetStateRequest =>
          /\ active_cache' = active_cache
          /\ UNCHANGED <<touched, calls>>
          /\ HasCache =>
                 LET self == active_cache[1]
                     snapshot == response'.cache_state
                 IN /\ response'.success
                    /\ snapshot.type = self.cache_type
                    /\ snapshot.size = self.cache_size
                    /\ snapshot.block_size = self.block_size
                    /\ snapshot.num_blocks = self.num_blocks
                    /\ snapshot.write_policy = self.write_policy
                    /\ Len(snapshot.lines) = Cardinality(Lines(self))
                    /\ \A k \in DOMAIN snapshot.lines :
                           LET block == self.cache[self.order[k]]
                           IN /\ snapshot.lines[k].valid = block.valid
                              /\ snapshot.lines[k].tag = block.tag
                              /\ snapshot.lines[k].data = block.data
                              /\ snapshot.lines[k].dirty = block.dirty
                    /\ snapshot.statistics.total_accesses = self.total_accesses
                    /\ snapshot.statistics.hits = self.hits
                    /\ snapshot.statistics.misses = self.misses
                    /\ snapshot.statistics.memory_reads = self.memory_reads
                    /\ snapshot.statistics.memory_writes = self.memory_writes]_vars

\* get_state has answered for an associative cache whose key order has
\* changed and that holds a dirty line
C19_Witness ==
    /\ response.handler = "get_state"
    /\ response.success
    /\ active_cache[1].cache_type = "fully-associative"
    /\ active_cache[1].order = <<1, 0>>
    /\ DirtyLines(active_cache[1]) # {}
    /\ active_cache[1].total_accesses = 2

---------------------------------------------------------------------------
(* C20: the statistics reported by access and by the snapshots satisfy, in *)
(* every reachable state: hit_ratio and miss_ratio are the percentages     *)
(* 100 * hits / total_accesses and 100 * misses / total_accesses rounded   *)
(* to two decimals, both 0 when total_accesses = 0, and                    *)
(* total_memory_traffic = memory_reads + memory_writes.  As first stated,  *)
(* with the ratios being the fractions hits / total_accesses and           *)
(* misses / total_accesses, the claim fails from the first access on.      *)

\* the statistics of the current instance and those the last reply carried
ReportedStatistics ==
    (IF HasCache THEN {get_statistics(active_cache[1])} ELSE {})
    \cup (IF Accessed THEN {response.result.statistics[1]} ELSE {})
    \cup (IF response.handler \in {"create_cache", "get_state", "reset_cache"}
             /\ response.success
          THEN {response.cache_state.statistics} ELSE {})

Abs(x) == IF x < 0 THEN -x ELSE x

\* ratio, held in hundredths, is the multiple of 0.01 nearest to
\* 100 * count / total
NearestPercentage(ratio, count, total) ==
    2 * Abs(ratio * total - 10000 * count) <= total

\* ratio, held in hundredths, is exactly count / total
ExactFraction(ratio, count, total) == ratio * total = 100 * count

\* C20 as first stated: the ratios are the fractions hits / total_accesses
\* and misses / total_accesses
C20_RatiosAreFractions ==
    \A s \in ReportedStatistics :
        /\ s.total_accesses = 0 => (s.hit_ratio = 0 /\ s.miss_ratio = 0)
        /\ s.total_accesses > 0 =>
               /\ ExactFraction(s.hit_ratio, s.hits, s.total_accesses)
               /\ ExactFraction(s.miss_ratio, s.misses, s.total_accesses)
        /\ s.total_memory_traffic = s.memory_reads + s.memory_writes

\* C20 as amended: the ratios are percentages rounded to two decimals, and
\* the traffic is the sum of reads and writes
C20_RatiosArePercentages ==
    \A s \in ReportedStatistics :
        /\ s.total_accesses = 0 => (s.hit_ratio = 0 /\ s.miss_ratio = 0)
        /\ s.total_accesses > 0 =>
               /\ NearestPercentage(s.hit_ratio, s.hits, s.total_accesses)
               /\ NearestPercentage(s.miss_ratio, s.misses, s.total_accesses)
        /\ s.total_memory_traffic = s.memory_reads + s.memory_writes

\* one hit in three accesses: 33.33 and 66.67 are reported
C20_Witness ==
    /\ Accessed
    /\ response.result.statistics[1].total_accesses = 3
    /\ response.result.statistics[1].hits = 1
    /\ response.result.statistics[1].hit_ratio = 3333
    /\ response.result.statistics[1].miss_ratio = 6667
    /\ response.result.statistics[1].total_memory_traffic > 2

---------------------------------------------------------------------------
(* C21: an access is a hit if and only if, in the state before it, a valid *)
(* line whose tag is the decomposed tag exists at the decomposed location: *)
(* the line at the decomposed index in the direct-mapped variant, any line *)
(* in the associative one.  Otherwise it is a miss.  The hit flag of the   *)
(* result and the counter that grows, hits or misses, agree with this.     *)

\* the address of the call of access made by this step
StepAddress == touched'[Len(touched')]

\* self holds the block of address a where the variant looks for it
Present(self, a) ==
    IF self.cache_type = "direct-mapped"
    THEN LET d == DM_decompose_address(self, a)
         IN /\ d.index \in Lines(self)
            /\ self.cache[d.index].valid = 1
            /\ self.cache[d.index].tag = Some(d.tag)
    ELSE \E l \in Lines(self) :
             /\ self.cache[l].valid = 1
             /\ self.cache[l].tag = Some(FA_decompose_address(self, a).tag)

\* C21: hit exactly when the block is present before the access
C21_HitIffPresent ==
    [][AccessStep =>
          LET pre == active_cache[1]
              post == active_cache'[1]
              present == Present(pre, StepAddress)
          IN /\ Accessed' => (response'.result.hit <=> present)
             /\ Accessed' => response'.result.address = StepAddress
             /\ post.hits = pre.hits + (IF present THEN 1 ELSE 0)
             /\ post.misses = pre.misses + (IF present THEN 0 ELSE 1)]_vars

\* a hit in the associative variant on a line that is not the first
C21_Witness ==
    /\ Accessed
    /\ response.result.hit
    /\ active_cache[1].cache_type = "fully-associative"
    /\ response.result.affected_line = Some(1)

\* a direct-mapped miss on a valid line that holds another tag
C21_WitnessConflict ==
    /\ Accessed
    /\ ~response.result.hit
    /\ response.result.eviction
    /\ active_cache[1].cache_type = "direct-mapped"

---------------------------------------------------------------------------
(* C22: on every miss the result's eviction flag is true if and only if    *)
(* the target line was valid before the access.  A miss into an invalid    *)
(* line reports no eviction and no dirty write-back; a miss into a valid   *)
(* line, which then holds another tag, reports an eviction.                *)

C22_EvictionIffTargetValid ==
    [][(AccessStep /\ Accessed' /\ ~response'.result.hit) =>
          LET pre == active_cache[1]
              post == active_cache'[1]
              result == response'.result
              target == result.affected_line[1]
          IN /\ target \in Lines(pre)
             \* the target is the line that received the block
             /\ post.cache[target].valid = 1
             /\ post.cache[target].tag = Some(result.decomposition.tag)
             /\ \A l \in Lines(pre) \ {target} : post.cache[l] = pre.cache[l]
             /\ result.eviction <=> pre.cache[target].valid = 1
             /\ pre.cache[target].valid = 0
                    => (~result.eviction /\ ~result.dirty_writeback)
             /\ pre.cache[target].valid = 1
                    => /\ pre.cache[target].tag # Some(result.decomposition.tag)
                       /\ result.eviction]_vars

\* a miss into an invalid line of a cache that already holds a block
C22_Witness ==
    /\ Accessed
    /\ ~response.result.hit
    /\ ~response.result.eviction
    /\ Cardinality(ValidLines(active_cache[1])) = 2

\* a miss that replaced a valid line of the associative variant
C22_WitnessReplacement ==
    /\ Accessed
    /\ ~response.result.hit
    /\ response.result.eviction
    /\ active_cache[1].cache_type = "fully-associative"
    /\ Cardinality(Lines(active_cache[1])) = 2

---------------------------------------------------------------------------
(* C23: every miss adds exactly one to memory_reads, whatever the          *)
(* operation, the write policy or the eviction, and no hit changes         *)
(* memory_reads; hence memory_reads = misses in every reachable state of   *)
(* either variant.                                                         *)

\* C23: memory_reads = misses in every reachable state
C23_MemoryReadsEqualMisses ==
    HasCache => active_cache[1].memory_reads = active_cache[1].misses

\* the same on the instances whose sizes satisfy the size invariants, with
\* the step form: a miss adds one read and a hit none
C23_OnValidInstances ==
    [][(AccessStep /\ ValidInstance(active_cache[1])) =>
          LET pre == active_cache[1]
              post == active_cache'[1]
          IN /\ post.memory_reads - pre.memory_reads = post.misses - pre.misses
             /\ post.memory_reads = post.misses]_vars

---------------------------------------------------------------------------
(* C24: on a write hit the hit line's stored value is overwritten, with    *)
(* the data when data is supplied and with the address otherwise.  Under   *)
(* write-through memory_writes grows by exactly one and the line is not    *)
(* dirty afterwards; under write-back the line is dirty afterwards and     *)
(* neither memory_reads nor memory_writes changes.  In both cases the      *)
(* line's valid bit and tag, and every other line, are unchanged.          *)

\* the value a call stores: the data argument, or the address without one
StoredValue(resp) == Some(IF IsNone(resp.data) THEN resp.result.address
                          ELSE resp.data[1])

\* this step is a call of access that returned a hit / a miss
HitStep == AccessStep /\ Accessed' /\ response'.result.hit

MissStep == AccessStep /\ Accessed' /\ ~response'.result.hit

\* C24: the effect of a write hit under either policy
C24_WriteHit ==
    [][(HitStep /\ response'.result.operation = "write") =>
          LET pre == active_cache[1]
              post == active_cache'[1]
              line == response'.result.affected_line[1]
          IN /\ post.cache[line].data = StoredValue(response')
             /\ post.cache[line].valid = pre.cache[line].valid
             /\ post.cache[line].tag = pre.cache[line].tag
             /\ \A l \in Lines(pre) \ {line} : post.cache[l] = pre.cache[l]
             /\ pre.write_policy = "write-through" =>
                    /\ post.memory_writes = pre.memory_writes + 1
                    /\ post.cache[line].dirty = 0
             /\ pre.write_policy = "write-back" =>
                    /\ post.cache[line].dirty = 1
                    /\ post.memory_writes = pre.memory_writes
                    /\ post.memory_reads = pre.memory_reads]_vars

\* a write hit with data under write-back on a line that was clean
C24_Witness ==
    /\ Accessed
    /\ response.result.hit
    /\ response.result.operation = "write"
    /\ response.data = Some(77)
    /\ active_cache[1].write_policy = "write-back"
    /\ active_cache[1].cache[response.result.affected_line[1]].data = Some(77)
    /\ active_cache[1].memory_writes = 0

\* a write hit without data under write-through
C24_WitnessWriteThrough ==
    /\ Accessed
    /\ response.result.hit
    /\ response.result.operation = "write"
    /\ response.data = None
    /\ active_cache[1].write_policy = "write-through"
    /\ active_cache[1].cache_type = "fully-associative"

---------------------------------------------------------------------------
(* C25: a read hit changes no line's valid, tag, stored value or dirty     *)
(* field and neither memory_reads nor memory_writes, even when a data      *)
(* value is supplied; its only effects are total_accesses + 1, hits + 1    *)
(* and, in the associative variant, the move of the hit line to the most   *)
(* recently used end of the key order.                                     *)

\* the key order with key k moved to its end
MovedToEnd(order, k) == Append(SelectSeq(order, LAMBDA x : x # k), k)

\* C25: a read hit only counts and, in the associative variant, reorders
C25_ReadHit ==
    [][(HitStep /\ response'.result.operation = "read") =>
          LET pre == active_cache[1]
              post == active_cache'[1]
              line == response'.result.affected_line[1]
          IN post = [pre EXCEPT
                         !.total_accesses = @ + 1,
                         !.hits = @ + 1,
                         !.order = IF pre.cache_type = "fully-associative"
                                   THEN MovedToEnd(@, line) ELSE @]]_vars

\* a read hit with data on a dirty line that is not the most recently used
C25_Witness ==
    /\ Accessed
    /\ response.result.hit
    /\ response.result.operation = "read"
    /\ response.data = Some(77)
    /\ active_cache[1].cache_type = "fully-associative"
    /\ active_cache[1].order = <<1, 0>>
    /\ response.result.affected_line = Some(0)
    /\ active_cache[1].cache[0].dirty = 1
    /\ active_cache[1].total_accesses = 3

---------------------------------------------------------------------------
(* C26: after any miss the target line is valid, its tag is the decomposed *)
(* tag and its stored value is the supplied data, or the address when no   *)
(* data is supplied.  Its dirty bit is set exactly when the operation is a *)
(* write under write-back; it is clear after a read, even if the evicted   *)
(* occupant was dirty, and after a write under write-through, which also   *)
(* adds one to memory_writes.                                              *)

\* C26: the line a miss installs
C26_MissInstalls ==
    [][MissStep =>
          LET pre == active_cache[1]
              post == active_cache'[1]
              result == response'.result
              target == post.cache[result.affected_line[1]]
          IN /\ target.valid = 1
             /\ target.tag = Some(result.decomposition.tag)
             /\ target.data = StoredValue(response')
             /\ target.dirty = 1 <=> (/\ result.operation = "write"
                                      /\ pre.write_policy = "write-back")
             /\ result.operation = "read" => target.dirty = 0
             /\ (result.operation = "write" /\ pre.write_policy = "write-through")
                    => /\ target.dirty = 0
                       /\ post.memory_writes = pre.memory_writes + 1]_vars

\* a read miss with data that replaced a dirty line
C26_Witness ==
    /\ Accessed
    /\ ~response.result.hit
    /\ response.result.operation = "read"
    /\ response.result.dirty_writeback
    /\ response.data = Some(77)
    /\ active_cache[1].cache[response.result.affected_line[1]].data = Some(77)

\* a write miss without data under write-through
C26_WitnessWriteThrough ==
    /\ Accessed
    /\ ~response.result.hit
    /\ response.result.operation = "write"
    /\ response.data = None
    /\ active_cache[1].write_policy = "write-through"
    /\ response.result.eviction

---------------------------------------------------------------------------
(* C27: in the associative variant a miss is filled into an invalid line   *)
(* whenever there is one, and the least recently used line is taken only   *)
(* when all lines are valid; so nothing is evicted while a line is         *)
(* invalid, and the number of valid lines is always the smaller of the     *)
(* line count and misses.                                                  *)

Min(a, b) == IF a < b THEN a ELSE b

\* C27: empty lines are filled before anything is evicted
C27_FillBeforeEvict ==
    [][(HasCache' /\ active_cache'[1].cache_type = "fully-associative") =>
          /\ Cardinality(ValidLines(active_cache'[1]))
                 = Min(Cardinality(Lines(active_cache'[1])),
                       active_cache'[1].misses)
          /\ MissStep =>
                 LET pre == active_cache[1]
                     result == response'.result
                     target == result.affected_line[1]
                 IN IF ValidLines(pre) # Lines(pre)
                    THEN /\ ~result.eviction
                         /\ pre.cache[target].valid = 0
                         /\ ValidLines(active_cache'[1])
                                = ValidLines(pre) \cup {target}
                    ELSE /\ result.eviction
                         /\ target = pre.order[1]
                         /\ ValidLines(active_cache'[1]) = ValidLines(pre)]_vars

\* a third miss on a two-line associative cache: the first eviction
C27_Witness ==
    /\ Accessed
    /\ active_cache[1].cache_type = "fully-associative"
    /\ Cardinality(Lines(active_cache[1])) = 2
    /\ active_cache[1].misses = 3
    /\ response.result.eviction

\* a second miss on a three-line associative cache: one line still invalid
C27_WitnessFilling ==
    /\ Accessed
    /\ active_cache[1].cache_type = "fully-associative"
    /\ Cardinality(Lines(active_cache[1])) = 3
    /\ active_cache[1].misses = 2
    /\ active_cache[1].hits = 1
    /\ Cardinality(ValidLines(active_cache[1])) = 2

---------------------------------------------------------------------------
(* C28: under write-back a valid line is dirty if and only if at least one *)
(* write access has targeted it since the block it holds was installed:    *)
(* the write that installed it, or a later write hit.  Stated over the     *)
(* steps that make up that history: no line is dirty at first; the line an *)
(* access targets is dirty afterwards exactly when the access is a write   *)
(* or, if it hit, the line was dirty already; an access that installs a    *)
(* block by a read leaves its line clean; every other line keeps its block *)
(* and its dirty bit.                                                      *)

\* the call of access made by this step was a write
StepIsWrite == calls'.write = calls.write + 1

\* the lines of self that hold the block of address a
LinesHolding(self, a) ==
    {l \in ValidLines(self) :
        self.cache[l].tag =
            Some(IF self.cache_type = "direct-mapped"
                 THEN DM_decompose_address(self, a).tag
                 ELSE FA_decompose_address(self, a).tag)
        /\ (self.cache_type = "direct-mapped"
                => l = DM_decompose_address(self, a).index)}

\* C28: the dirty bit records the writes since the block was installed
C28_DirtyIffWritten ==
    [][(AccessStep /\ active_cache[1].write_policy = "write-back") =>
          LET pre == active_cache[1]
              post == active_cache'[1]
              targeted == LinesHolding(post, StepAddress)
              installed == ~Present(pre, StepAddress)
          IN /\ pre.total_accesses = 0 => DirtyLines(pre) = {}
             /\ Accessed' => Cardinality(targeted) = 1
             /\ \A l \in targeted :
                    post.cache[l].dirty = 1
                        <=> \/ StepIsWrite
                            \/ ~installed /\ pre.cache[l].dirty = 1
             /\ \A l \in Lines(pre) \ targeted :
                    post.cache[l] = pre.cache[l]]_vars

\* a line written when installed, read since, and still dirty, beside a
\* line installed by a read
C28_Witness ==
    /\ Accessed
    /\ active_cache[1].write_policy = "write-back"
    /\ response.result.hit
    /\ response.result.operation = "read"
    /\ active_cache[1].cache[response.result.affected_line[1]].dirty = 1
    /\ Cardinality(ValidLines(active_cache[1])) = 2
    /\ Cardinality(DirtyLines(active_cache[1])) = 1

\* a dirty line replaced by a read: the new block is clean
C28_WitnessCleaned ==
    /\ Accessed
    /\ active_cache[1].write_policy = "write-back"
    /\ response.result.dirty_writeback
    /\ response.result.operation = "read"
    /\ active_cache[1].cache[response.result.affected_line[1]].dirty = 0

---------------------------------------------------------------------------
(* C29: the offset plays no part in hit/miss.  In every state of either    *)
(* variant two addresses of one block (the same address with the low       *)
(* offset_bits bits changed) are classified identically, and immediately   *)
(* after an access to address a an access to any address of the block of a *)
(* is a hit.                                                               *)

\* addresses of three blocks of four bytes, every offset of each
BlockAddresses == 0..11

\* a and b differ in the low offset_bits bits at most
SameBlock(self, a, b) ==
    a \div Pow2(self.offset_bits) = b \div Pow2(self.offset_bits)

\* access(a, operation) on self would count a hit
WouldHit(self, a, operation) ==
    access(self, a, operation, None).self.hits = self.hits + 1

\* two addresses of one block are classified identically in the same state
SameBlockSameClass(self) ==
    \A a, b \in BlockAddresses, op \in Operations :
        SameBlock(self, a, b) => (WouldHit(self, a, op) <=> WouldHit(self, b, op))

\* the block of the address accessed last hits at every offset
LastBlockHits(self) ==
    touched # <<>> =>
        \A b \in BlockAddresses, op \in Operations :
            SameBlock(self, touched[Len(touched)], b) => WouldHit(self, b, op)

\* C29: the offset plays no part in hit/miss, in any state and either variant
C29_OffsetIrrelevant ==
    HasCache => /\ SameBlockSameClass(active_cache[1])
                /\ LastBlockHits(active_cache[1])

\* C29 on the instances whose sizes satisfy the size invariants
C29_OnValidInstances ==
    (HasCache /\ ValidInstance(active_cache[1])) =>
        /\ SameBlockSameClass(active_cache[1])
        /\ LastBlockHits(active_cache[1])

\* C29, its second half alone, on every instance
C29_SameBlockSameClass ==
    HasCache => SameBlockSameClass(active_cache[1])

\* an access to address 9 has just hit the block installed by address 8
C29_Witness ==
    /\ Accessed
    /\ ValidInstance(active_cache[1])
    /\ response.result.hit
    /\ Len(touched) >= 2
    /\ touched[Len(touched)] = 9
    /\ touched[Len(touched) - 1] = 8

---------------------------------------------------------------------------
(* C30: address decomposition is lossless and in range.  For every         *)
(* non-negative address, direct-mapped yields 0 <= offset < block_size,    *)
(* 0 <= index < num_blocks and                                             *)
(* address = tag * block_size * num_blocks + index * block_size + offset;  *)
(* fully associative yields 0 <= offset < block_size and                   *)
(* address = tag * block_size + offset.  The tag is the whole quotient,    *)
(* never clipped to tag_bits bits.                                         *)

\* the last step was a call of decompose_address
Decomposed == response.handler = "decompose_address"

\* the decomposition d of address a on self is in range and loses nothing
Lossless(self, a, d) ==
    /\ 0 <= d.offset
    /\ d.offset < self.block_size
    /\ d.tag >= 0
    /\ IF self.cache_type = "direct-mapped"
       THEN /\ 0 <= d.index
            /\ d.index < self.num_blocks
            /\ a = d.tag * self.block_size * self.num_blocks
                       + d.index * self.block_size + d.offset
       ELSE a = d.tag * self.block_size + d.offset

\* C30: decomposition is lossless and in range on every instance
C30_DecompositionLossless ==
    Decomposed => Lossless(active_cache[1], response.address, response.result)

\* C30 on the instances whose sizes satisfy the size invariants
C30_OnValidInstances ==
    (Decomposed /\ ValidInstance(active_cache[1])) =>
        Lossless(active_cache[1], response.address, response.result)

\* a direct-mapped decomposition with tag, index and offset all non-zero
C30_Witness ==
    /\ Decomposed
    /\ ValidInstance(active_cache[1])
    /\ active_cache[1].cache_type = "direct-mapped"
    /\ response.result.tag > 0
    /\ response.result.index > 0
    /\ response.result.offset > 0

\* an address beyond 2^30 decomposed: the tag needs more than 28 bits
C30_WitnessLargeTag ==
    /\ Decomposed
    /\ ValidInstance(active_cache[1])
    /\ response.result.tag >= Pow2(28)

---------------------------------------------------------------------------
(* C31: fully associative: in every reachable state no two valid lines     *)
(* hold the same tag, so a resident block occupies exactly one line and    *)
(* the tag search has at most one match.                                   *)

\* the valid lines of self whose tag is tag: the matches of the tag search
Matches(self, tag) ==
    {l \in ValidLines(self) : self.cache[l].tag = Some(tag)}

\* C31: no two valid lines of an associative instance hold the same tag
C31_NoDuplicateTag ==
    (HasCache /\ active_cache[1].cache_type = "fully-associative") =>
        NoDuplicateTag(active_cache[1])

\* C31 for calls of access made one after the other: the block of every
\* address is in at most one line, and in exactly one when it is resident
C31_OneCallAtATime ==
    (HasCache /\ active_cache[1].cache_type = "fully-associative") =>
        \A a \in BlockAddresses :
            LET found == Matches(active_cache[1],
                                 FA_decompose_address(active_cache[1], a).tag)
            IN /\ Cardinality(found) <= 1
               /\ Present(active_cache[1], a) <=> Cardinality(found) = 1

\* three blocks resident in three lines after a hit on one of them
C31_Witness ==
    /\ Accessed
    /\ active_cache[1].cache_type = "fully-associative"
    /\ response.result.hit
    /\ Cardinality(ValidLines(active_cache[1])) = 3

---------------------------------------------------------------------------
(* C32: whenever a valid line whose dirty bit is set is overwritten by a   *)
(* miss, memory_writes is incremented for that replacement, so no dirty    *)
(* content is silently dropped; this holds for every instance the          *)
(* adapter's create_cache can produce, whatever write_policy it was given. *)

\* this step was a miss that overwrote a valid line whose dirty bit was set
ReplacesDirty ==
    /\ MissStep
    /\ LET line == response'.result.affected_line[1]
       IN /\ active_cache[1].cache[line].valid = 1
          /\ active_cache[1].cache[line].dirty = 1

\* C32: the replacement of a dirty line is written to memory
C32_DirtyNeverDropped ==
    [][ReplacesDirty =>
          /\ response'.result.dirty_writeback
          /\ active_cache'[1].memory_writes > active_cache[1].memory_writes]_vars

\* C32 on the instances created with one of the two policies the engine names
C32_NamedPolicies ==
    [][(ReplacesDirty /\ active_cache[1].write_policy \in WritePolicies) =>
          /\ response'.result.dirty_writeback
          /\ active_cache'[1].memory_writes = active_cache[1].memory_writes + 1]_vars

\* a dirty line has just been replaced and written back
C32_Witness ==
    /\ Accessed
    /\ response.result.dirty_writeback
    /\ active_cache[1].memory_writes = 1

---------------------------------------------------------------------------
(* C33: under write-back, in every reachable state memory_writes plus the  *)
(* number of dirty lines is at most the number of write accesses performed *)
(* so far; in particular a sequence of reads alone never produces a memory *)
(* write or a dirty line.                                                  *)

\* C33: every memory write and every dirty line is owed to a write access
C33_WritesBoundTraffic ==
    (HasCache /\ active_cache[1].write_policy = "write-back") =>
        active_cache[1].memory_writes
            + Cardinality(DirtyLines(active_cache[1])) <= calls.write

\* two writes made: one written back on eviction, the other still dirty
C33_Witness ==
    /\ HasCache
    /\ active_cache[1].write_policy = "write-back"
    /\ calls.write = 2
    /\ active_cache[1].memory_writes = 1
    /\ Cardinality(DirtyLines(active_cache[1])) = 1

\* reads alone, with evictions: no memory write and no dirty line
C33_WitnessReadsOnly ==
    /\ Accessed
    /\ active_cache[1].write_policy = "write-back"
    /\ calls.write = 0
    /\ calls.read >= 3
    /\ response.result.eviction
    /\ active_cache[1].memory_writes = 0
    /\ DirtyLines(active_cache[1]) = {}


\* C33 between the requests of concurrent callers: no call of access is
\* part-way through
C33_BetweenRequests ==
    (HasCache /\ AllIdle /\ active_cache[1].write_policy = "write-back") =>
        active_cache[1].memory_writes
            + Cardinality(DirtyLines(active_cache[1])) <= calls.write

---------------------------------------------------------------------------
(* C34: with a single line (cache_size = block_size) the direct-mapped and *)
(* the fully associative variant are observationally equivalent: run side  *)
(* by side on the same access sequence with the same write policy, every   *)
(* access yields the same hit, eviction and dirty_writeback flags and the  *)
(* same counters, and the single line holds the same valid, tag, data and  *)
(* dirty values.                                                           *)

\* what the claim compares of a result
Flags(resp) == <<resp.hit, resp.eviction, resp.dirty_writeback>>

\* both instances have one line
SingleLine(a, b) == Lines(a) = {0} /\ Lines(b) = {0}

\* C34: the two variants agree on flags, counters and the single line
C34_SingleLineEquivalent ==
    /\ response.handler \in {"construct_pair", "pair_access"} =>
           /\ SingleLine(active_cache[1], response.twin)
           /\ Counters(active_cache[1]) = Counters(response.twin)
           /\ active_cache[1].cache[0] = response.twin.cache[0]
    /\ response.handler = "pair_access" =>
           /\ IsNone(response.raised) /\ IsNone(response.twin_raised)
           /\ Flags(response.result) = Flags(response.twin_result)

\* both variants have just replaced a dirty line and written it back
C34_Witness ==
    /\ response.handler = "pair_access"
    /\ response.result.dirty_writeback
    /\ response.twin_result.dirty_writeback
    /\ active_cache[1].cache_type = "direct-mapped"
    /\ response.twin.cache_type = "fully-associative"

\* both variants have just hit a dirty line with a read
C34_WitnessHit ==
    /\ response.handler = "pair_access"
    /\ response.result.hit
    /\ response.twin_result.hit
    /\ response.result.operation = "read"
    /\ response.twin.cache[0].dirty = 1

---------------------------------------------------------------------------
(* C35: in every result of access: dirty_writeback implies eviction,       *)
(* eviction implies not hit, affected_line is a line number in             *)
(* 0..num_blocks-1, and in the state after the access the affected line is *)
(* valid with tag equal to the decomposed tag.                             *)

\* the flags and the affected line of result are consistent with self, the
\* instance as the call leaves it
Consistent(self, result) ==
    /\ result.dirty_writeback => result.eviction
    /\ result.eviction => ~result.hit
    /\ ~IsNone(result.affected_line)
    /\ result.affected_line[1] \in 0..(self.num_blocks - 1)
    /\ self.cache[result.affected_line[1]].valid = 1
    /\ self.cache[result.affected_line[1]].tag = Some(result.decomposition.tag)
    /\ result.decomposition.tag =
           (IF self.cache_type = "direct-mapped"
            THEN DM_decompose_address(self, result.address).tag
            ELSE FA_decompose_address(self, result.address).tag)

\* this step returned a result of access
ReturnsResult == Accessed' /\ response' # response

\* C35: every result is consistent with the state the call returns in
C35_ResultConsistent ==
    [][ReturnsResult => Consistent(active_cache'[1], response'.result)]_vars

\* C35 for calls of access made one after the other: the last result is
\* consistent with the instance until the next call
C35_OneCallAtATime ==
    Accessed => Consistent(active_cache[1], response.result)

\* a result with all of eviction, dirty_writeback and a line other than 0
C35_Witness ==
    /\ Accessed
    /\ response.result.dirty_writeback
    /\ response.result.eviction
    /\ ~response.result.hit
    /\ response.result.affected_line[1] > 0

\* a hit on a line other than 0: no eviction, no write-back
C35_WitnessHit ==
    /\ Accessed
    /\ response.result.hit
    /\ ~response.result.eviction
    /\ response.result.affected_line[1] > 0


\* C35, the implications between the flags alone, which concern the result
\* and no state
C35_FlagsConsistent ==
    Accessed => /\ response.result.dirty_writeback => response.result.eviction
                /\ response.result.eviction => ~response.result.hit

---------------------------------------------------------------------------
(* C36: a create request that fails in the adapter leaves the previously   *)
(* active cache untouched: the active instance, its lines and its counters *)
(* after the failed create are exactly those before it, and a first-ever   *)
(* failed create leaves no active cache.                                   *)

\* this step answered a create request with an error
CreateFails ==
    /\ response'.handler = "create_cache"
    /\ ~response'.success

\* C36: a failed create changes neither the instance nor its absence
C36_FailedCreateKeepsCache ==
    [][CreateFails => /\ active_cache' = active_cache
                      /\ (IsNone(active_cache) => IsNone(active_cache'))
                      /\ response'.status = 400]_vars

\* a create request has failed on a cache that had been accessed: the
\* instance still holds the block and the counts
C36_Witness ==
    /\ response.handler = "create_cache"
    /\ ~response.success
    /\ HasCache
    /\ active_cache[1].total_accesses = 2
    /\ ValidLines(active_cache[1]) # {}

\* a first-ever create request has failed: there is no cache
C36_WitnessFirst ==
    /\ response.handler = "create_cache"
    /\ ~response.success
    /\ ~HasCache

---------------------------------------------------------------------------
(* C37: fully associative: in every reachable state the recency order      *)
(* (also the order in which cache_state and get_cache_state list the       *)
(* lines) consists of all invalid lines in ascending line number followed  *)
(* by all valid lines in order of their last touch; hence the k-th miss    *)
(* with k <= num_blocks fills line k-1, the first element is a valid line  *)
(* whenever no invalid line exists, and the line just accessed is always   *)
(* the last element.                                                       *)

\* the position in the history of the last access to the block that line l
\* of self holds (0 when there is none)
TouchedAt(self, l, history) ==
    Max({0} \union
        {i \in 1..Len(history) :
            Some(FA_decompose_address(self, history[i]).tag) = self.cache[l].tag})

\* the key order of self lists every line once: the invalid lines first, in
\* ascending line number, then the valid lines by their last touch
RecencyOrdered(self, history) ==
    /\ Len(self.order) = self.num_blocks
    /\ {self.order[i] : i \in 1..Len(self.order)} = Lines(self)
    /\ \A i, j \in 1..Len(self.order) :
           i < j =>
               LET a == self.order[i]
                   b == self.order[j]
               IN /\ self.cache[a].valid = 1 => self.cache[b].valid = 1
                  /\ (self.cache[a].valid = 0 /\ self.cache[b].valid = 0)
                         => a < b
                  /\ (self.cache[a].valid = 1 /\ self.cache[b].valid = 1)
                         => TouchedAt(self, a, history) < TouchedAt(self, b, history)
    /\ (ValidLines(self) = Lines(self) /\ Len(self.order) > 0)
           => self.cache[self.order[1]].valid = 1

\* the lines as get_cache_state lists them are the lines in the key order
ListedInOrder(self) ==
    /\ Len(FA_get_cache_state(self).lines) = Len(self.order)
    /\ \A i \in 1..Len(self.order) :
           FA_get_cache_state(self).lines[i] = to_dict(self.cache[self.order[i]])

\* C37: the recency order around every call of access
C37_RecencyOrder ==
    [][(AccessStep /\ active_cache[1].cache_type = "fully-associative") =>
          LET pre == active_cache[1]
              post == active_cache'[1]
          IN /\ RecencyOrdered(pre, touched)
             /\ RecencyOrdered(post, touched')
             /\ ListedInOrder(post)
             /\ Accessed' =>
                    /\ post.order[Len(post.order)]
                           = response'.result.affected_line[1]
                    /\ response'.result.cache_state
                           = FA_get_cache_state(post).lines
                    /\ (MissStep /\ post.misses <= post.num_blocks)
                           => response'.result.affected_line[1] = post.misses - 1]_vars

\* three lines, two filled by misses and one of them hit since: the order is
\* the invalid line 2, then line 1, then line 0
C37_Witness ==
    /\ Accessed
    /\ active_cache[1].cache_type = "fully-associative"
    /\ active_cache[1].order = <<2, 1, 0>>
    /\ response.result.hit
    /\ ValidLines(active_cache[1]) = {0, 1}

\* a full cache after an eviction: the replaced line is last
C37_WitnessEvicted ==
    /\ Accessed
    /\ active_cache[1].cache_type = "fully-associative"
    /\ active_cache[1].num_blocks = 2
    /\ response.result.eviction
    /\ active_cache[1].order = <<1, 0>>


\* C37 between the requests of concurrent callers, without the part that
\* needs a last touch: invalid lines first and ascending, then valid lines
C37_BetweenRequests ==
    (HasCache /\ AllIdle /\ active_cache[1].cache_type = "fully-associative") =>
        LET self == active_cache[1]
        IN \A i, j \in 1..Len(self.order) :
               i < j =>
                   /\ self.cache[self.order[i]].valid = 1
                          => self.cache[self.order[j]].valid = 1
                   /\ (self.cache[self.order[i]].valid = 0
                          /\ self.cache[self.order[j]].valid = 0)
                          => self.order[i] < self.order[j]


\* the first misses of self have filled the lines in ascending line number
MissesFillInOrder(self) ==
    self.misses <= self.num_blocks =>
        ValidLines(self) = 0..(self.misses - 1)

\* the key order of self has its invalid lines first and ascending, and its
\* first element is valid when no line is invalid
InvalidFirst(self) ==
    /\ \A i, j \in 1..Len(self.order) :
           i < j =>
               /\ self.cache[self.order[i]].valid = 1
                      => self.cache[self.order[j]].valid = 1
               /\ (self.cache[self.order[i]].valid = 0
                      /\ self.cache[self.order[j]].valid = 0)
                      => self.order[i] < self.order[j]
    /\ (ValidLines(self) = Lines(self) /\ Len(self.order) > 0)
           => self.cache[self.order[1]].valid = 1

\* C37 in every state where no call of access is part-way through: the
\* invalid lines come first in ascending line number, the first element is
\* valid when no line is invalid, and the k-th miss with k <= num_blocks has
\* filled line k-1
C37_RecencyInvariant ==
    (HasCache /\ AllIdle /\ active_cache[1].cache_type = "fully-associative") =>
        /\ InvalidFirst(active_cache[1])
        /\ MissesFillInOrder(active_cache[1])

---------------------------------------------------------------------------
(* C27 with concurrent callers.                                            *)

\* C27: in every state where no call of access is part-way through, the
\* number of valid lines of an associative instance is the smaller of the
\* line count and misses
C27_ValidLinesInvariant ==
    (HasCache /\ AllIdle /\ active_cache[1].cache_type = "fully-associative") =>
        Cardinality(ValidLines(active_cache[1]))
            = Min(Cardinality(Lines(active_cache[1])), active_cache[1].misses)

====
